---- MODULE Spec2Model ----
(***************************************************************************)
(* Model of the firestoreorm repository layer:                             *)
(*   - TransactionContext / FirestoreRepository.runInTransaction           *)
(*     (write queue, flush, post-commit hooks),                            *)
(*   - FirestoreRepository.commitInChunks and bulkCreate,                  *)
(*   - create, update, upsert, bulkUpdate, bulkDelete, bulkSoftDelete,     *)
(*   - FirestoreQueryBuilder: soft-delete filters, get() and update().     *)
(***************************************************************************)
EXTENDS Integers, Sequences, FiniteSets, TLC

VARIABLES
    hooks,              \* FirestoreRepository.hooks: event -> registered callbacks
    hasValidator,       \* FirestoreRepository.validator is set
    store,              \* the collection in the remote store: id -> document
    hookLog,            \* the hook callbacks invoked so far, in order
    txPc,               \* position of the runInTransaction call
    attempt,            \* number of times the store invoked the update function
    writeQueue,         \* TransactionContext.writeQueue
    afterCommitHooks,   \* TransactionContext.afterCommitHooks
    hasExecutedWrites,  \* TransactionContext.hasExecutedWrites
    txWrites,           \* writes the native transaction handle has received
    txReads,            \* reads the native transaction handle has served
    nCalls,             \* context calls made by the callback in this attempt
    lastCall,           \* the last context call and how it ended
    hookIdx,            \* loop position of runAfterCommitHooks
    cbResult,           \* value returned by the callback
    outcome,            \* how runInTransaction settled
    flushRuns,          \* times the flush loop ran on the current context
    nextAuto,           \* next store-generated document id
    bulkPc,             \* position of the bulkCreate call
    dataArray,          \* bulkCreate's argument
    actions,            \* the batch actions handed to commitInChunks
    actIdx,             \* commitInChunks: index of the next action of the loop
    batch,              \* commitInChunks: operations registered on the open batch
    counter,            \* commitInChunks: counter
    pending,            \* batches whose commit() is in flight
    commits,            \* batches the store has committed, in order
    commitCalls,        \* number of batch.commit() calls issued
    bulkErr,            \* error the bulk call failed with
    opPc,               \* position of the repository / query call in flight
    opName,             \* the operation that was called
    opArgs,             \* its arguments
    opSnap,             \* what it has read from the store
    opLog,              \* its steps so far: parse, hook, read, write
    opResult,           \* how it settled
    storeAtCall         \* the collection when it was called

txVars == <<txPc, attempt, writeQueue, afterCommitHooks, hasExecutedWrites,
            txWrites, txReads, nCalls, lastCall, hookIdx, cbResult, outcome,
            flushRuns>>

bulkVars == <<bulkPc, dataArray, actions, actIdx, batch, counter, pending,
              commits, commitCalls, bulkErr>>

opVars == <<opPc, opName, opArgs, opSnap, opLog, opResult, storeAtCall>>

vars == <<hooks, hasValidator, store, hookLog, nextAuto, txVars, bulkVars,
          opVars>>

----------------------------------------------------------------------------
\* Bounds of the model.
MaxHooks    == 1    \* registered hook callbacks, all events together
MaxCalls    == 2    \* context calls per callback invocation
MaxAttempts == 2    \* invocations of the update function by the store
MaxItems    == 2    \* length of the bulkCreate arrays with arbitrary items
MaxLen      == 1200 \* length of the longest bulkCreate array

\* Firestore's limit of operations per batch, as commitInChunks states it.
BatchCap    == 500

\* Sample values: caller-known ids, store-generated ids, payloads, results.
KnownIds  == {1, 2}
AutoId(k) == 100 + k

DataVals == {"good", "bad"}
Results  == {"r1", "r2"}
Fns      == {"f"}

TxEvents == {"beforeCreate", "afterCreate", "beforeUpdate", "afterUpdate",
             "beforeDelete", "afterDelete"}
BulkEvents == {"beforeBulkCreate", "afterBulkCreate"}
RepoBulkEvents == {"beforeBulkUpdate", "afterBulkUpdate",
                   "beforeBulkDelete", "afterBulkDelete",
                   "beforeBulkSoftDelete", "afterBulkSoftDelete"}
RestoreEvents == {"beforeRestore", "afterRestore"}
HookEvent == TxEvents \cup BulkEvents \cup RepoBulkEvents \cup RestoreEvents

\* The store maps the ids of the documents that exist to their fields.
ActiveDoc(d)  == [data |-> d, deletedAt |-> "null"]
DeletedDoc(d) == [data |-> d, deletedAt |-> "stamp"]
Exists(s, id) == id \in DOMAIN s

\* snapshot.exists / snapshot.data()
Missing == [exists |-> FALSE, data |-> <<>>]

Snapshot(s, id) ==
    IF Exists(s, id) THEN [exists |-> TRUE, data |-> s[id]] ELSE Missing

NoCall == [op |-> "none", res |-> "none", queued |-> 0, flushed |-> FALSE]
NoOutcome == [kind |-> "pending", value |-> "none"]

----------------------------------------------------------------------------
\* Validator.parseCreate / parseUpdate: throws on data the schema rejects;
\* a repository without validator passes everything through.
ParseThrows(d) == hasValidator /\ d = "bad"

\* on(event, fn): append fn to the event's list.
NumHooks == LET RECURSIVE Sum(_)
                Sum(S) == IF S = {} THEN 0
                          ELSE LET e == CHOOSE x \in S : TRUE
                               IN Len(hooks[e]) + Sum(S \ {e})
            IN Sum(HookEvent)

OnBounded(max, event, fn) ==
    /\ txPc = "idle"
    /\ bulkPc = "idle"
    /\ opPc = "idle"
    /\ NumHooks < max
    /\ hooks' = [hooks EXCEPT ![event] = Append(@, fn)]
    /\ UNCHANGED <<hasValidator, store, hookLog, nextAuto, txVars, bulkVars,
                   opVars>>

On(event, fn) == OnBounded(MaxHooks, event, fn)

\* runHooks(event, data): the callbacks of the event, in registration order,
\* each awaited; the first one that throws ends the loop. k is the position
\* of the callback that throws on this invocation (0: none throws).
HookOutcomes(event) == 0..Len(hooks[event])

HooksInvokedAll(n, k) == n

HooksInvoked(n, k) == IF k = 0 THEN n ELSE k

RunHooksLog(event, id, k) ==
    LET fns == hooks[event]
        n   == HooksInvoked(Len(fns), k)
    IN [i \in 1..n |-> [event |-> event, fn |-> fns[i], pos |-> i, id |-> id,
                        res |-> IF i = k THEN "throw" ELSE "ok"]]

----------------------------------------------------------------------------
\* The store's effect of one write of a committed native transaction.
\* tx.set(ref, docData) / tx.set(ref, validData, {merge: true}) / tx.delete(ref)
ApplyWrite(s, w) ==
    CASE w.type = "create" -> (w.id :> ActiveDoc(w.data)) @@ s
      [] w.type = "update" ->
            IF Exists(s, w.id)
            THEN [s EXCEPT ![w.id].data = w.data]
            ELSE (w.id :> [data |-> w.data, deletedAt |-> "absent"]) @@ s
      [] w.type = "delete" -> [i \in DOMAIN s \ {w.id} |-> s[i]]

RECURSIVE ApplyWrites(_, _)
ApplyWrites(s, ws) ==
    IF ws = <<>> THEN s ELSE ApplyWrites(ApplyWrite(s, Head(ws)), Tail(ws))

\* QueuedWrite: kind, the write its execute closure issues, the event and
\* payload of its afterCommitHook closure; seq tells apart the QueuedWrite
\* objects of one context (the position at which it is pushed), ctx the
\* contexts (one is constructed per invocation of the update function).
QueuedWrite(type, id, data, after) ==
    [type |-> type, id |-> id, data |-> data, after |-> after,
     seq |-> Len(writeQueue) + 1, ctx |-> attempt]

Call(op, res) ==
    [op |-> op, res |-> res,
     queued |-> Len(writeQueue), flushed |-> hasExecutedWrites]

\* TransactionContext.get's read-before-write guard.
GetGuardNeverFails == FALSE

GetGuardFails == hasExecutedWrites

\* TransactionContext.delete's guard.
DeleteGuardFails == hasExecutedWrites

\* FirestoreRepository.getForUpdate: what the read returns.
GetForUpdate(id, includeDeleted) ==
    IF ~Exists(store, id) THEN "null"
    ELSE IF ~includeDeleted /\ store[id].deletedAt = "stamp" THEN "null"
    ELSE "doc"

\* One TransactionContext for all invocations of the update function.
NewAttemptSharedContext ==
    /\ txPc' = "callback"
    /\ attempt' = attempt + 1
    /\ UNCHANGED <<writeQueue, afterCommitHooks, hasExecutedWrites, flushRuns>>
    /\ txWrites' = <<>>
    /\ txReads' = 0
    /\ nCalls' = 0
    /\ lastCall' = NoCall
    /\ hookIdx' = 1
    /\ cbResult' = "none"

\* db.runTransaction invokes the update function: a new native handle, a new
\* TransactionContext.
NewAttempt ==
    /\ txPc' = "callback"
    /\ attempt' = attempt + 1
    /\ writeQueue' = <<>>
    /\ afterCommitHooks' = <<>>
    /\ hasExecutedWrites' = FALSE
    /\ txWrites' = <<>>
    /\ txReads' = 0
    /\ nCalls' = 0
    /\ lastCall' = NoCall
    /\ hookIdx' = 1
    /\ cbResult' = "none"
    /\ flushRuns' = 0

RunInTransaction ==
    /\ txPc = "idle"
    /\ NewAttempt
    /\ outcome' = NoOutcome
    /\ UNCHANGED <<opVars, bulkVars, hooks, hasValidator, store, hookLog, nextAuto>>

InCallback == txPc = "callback" /\ nCalls < MaxCalls

\* ctx.get(id, includeDeleted)
CtxGet(id, includeDeleted) ==
    /\ InCallback
    /\ nCalls' = nCalls + 1
    /\ IF GetGuardFails
       THEN /\ lastCall' = Call("get", "OrderingViolation")
            /\ UNCHANGED txReads
       ELSE /\ lastCall' = Call("get", GetForUpdate(id, includeDeleted))
            /\ txReads' = txReads + 1
    /\ UNCHANGED <<opVars, bulkVars, hooks, hasValidator, store, hookLog, nextAuto, txPc, attempt,
                   writeQueue, afterCommitHooks, hasExecutedWrites, txWrites,
                   hookIdx, cbResult, outcome, flushRuns>>

\* The push onto writeQueue ahead of the before-hook.
PushAndPrepare(op, before, w) ==
    \E k \in HookOutcomes(before) :
        /\ hookLog' = hookLog \o RunHooksLog(before, w.id, k)
        /\ lastCall' = Call(op, IF k # 0 THEN "HookError" ELSE "ok")
        /\ writeQueue' = Append(writeQueue, w)

\* The tail of create/update/delete: the before-hook, then the push onto
\* writeQueue (skipped when the hook throws).
PrepareAndPush(op, before, w) ==
    \E k \in HookOutcomes(before) :
        /\ hookLog' = hookLog \o RunHooksLog(before, w.id, k)
        /\ IF k # 0
           THEN /\ lastCall' = Call(op, "HookError")
                /\ UNCHANGED writeQueue
           ELSE /\ lastCall' = Call(op, "ok")
                /\ writeQueue' = Append(writeQueue, w)

\* ctx.create(data): prepareCreateInTransaction, then push.
CtxCreate(data) ==
    /\ InCallback
    /\ nCalls' = nCalls + 1
    /\ IF ParseThrows(data)
       THEN /\ lastCall' = Call("create", "ValidationError")
            /\ UNCHANGED <<writeQueue, hookLog, nextAuto>>
       ELSE /\ nextAuto' = nextAuto + 1
            /\ PrepareAndPush("create", "beforeCreate",
                    QueuedWrite("create", AutoId(nextAuto), data, "afterCreate"))
    /\ UNCHANGED <<opVars, bulkVars, hooks, hasValidator, store, txPc, attempt, afterCommitHooks,
                   hasExecutedWrites, txWrites, txReads, hookIdx, cbResult,
                   outcome, flushRuns>>

\* ctx.update(id, data): prepareUpdateInTransaction, then push.
CtxUpdate(id, data) ==
    /\ InCallback
    /\ nCalls' = nCalls + 1
    /\ IF ParseThrows(data)
       THEN /\ lastCall' = Call("update", "ValidationError")
            /\ UNCHANGED <<writeQueue, hookLog>>
       ELSE PrepareAndPush("update", "beforeUpdate",
                    QueuedWrite("update", id, data, "afterUpdate"))
    /\ UNCHANGED <<opVars, bulkVars, hooks, hasValidator, store, nextAuto, txPc, attempt,
                   afterCommitHooks, hasExecutedWrites, txWrites, txReads,
                   hookIdx, cbResult, outcome, flushRuns>>

\* ctx.delete(id): guard, prepareDeleteInTransaction (a read), then push.
CtxDelete(id) ==
    /\ InCallback
    /\ nCalls' = nCalls + 1
    /\ IF DeleteGuardFails
       THEN /\ lastCall' = Call("delete", "OrderingViolation")
            /\ UNCHANGED <<txReads, writeQueue, hookLog>>
       ELSE /\ txReads' = txReads + 1
            /\ IF ~Exists(store, id)
               THEN /\ lastCall' = Call("delete", "NotFoundError")
                    /\ UNCHANGED <<writeQueue, hookLog>>
               ELSE PrepareAndPush("delete", "beforeDelete",
                        QueuedWrite("delete", id, "none", "afterDelete"))
    /\ UNCHANGED <<opVars, bulkVars, hooks, hasValidator, store, nextAuto, txPc, attempt,
                   afterCommitHooks, hasExecutedWrites, txWrites, hookIdx,
                   cbResult, outcome, flushRuns>>

\* The write that a QueuedWrite's execute closure issues on the handle.
Execute(w) ==
    [type |-> w.type, id |-> w.id, data |-> w.data, seq |-> w.seq,
     ctx |-> w.ctx]

\* The closure kept for the post-commit phase.
AfterHook(w) == [event |-> w.after, id |-> w.id, ctx |-> w.ctx]

\* flushWrites(): the loop over writeQueue.
FlushedWritesReversed(handle, queue) ==
    handle \o [i \in 1..Len(queue) |-> Execute(queue[Len(queue) + 1 - i])]

FlushedWrites(handle, queue) ==
    handle \o [i \in 1..Len(queue) |-> Execute(queue[i])]

FlushedHooksReversed(hs, queue) ==
    hs \o [i \in 1..Len(queue) |-> AfterHook(queue[Len(queue) + 1 - i])]

FlushedHooks(hs, queue) ==
    hs \o [i \in 1..Len(queue) |-> AfterHook(queue[i])]

\* flushWrites() returns at once when the writes have been executed.
FlushNeverSkips == FALSE

FlushSkips == hasExecutedWrites

FlushWrites ==
    IF FlushSkips
    THEN UNCHANGED <<txWrites, afterCommitHooks, hasExecutedWrites, flushRuns>>
    ELSE /\ txWrites' = FlushedWrites(txWrites, writeQueue)
         /\ afterCommitHooks' = FlushedHooks(afterCommitHooks, writeQueue)
         /\ hasExecutedWrites' = TRUE
         /\ flushRuns' = flushRuns + 1

\* The callback calls ctx.flushWrites() itself.
CtxFlushWrites ==
    /\ InCallback
    /\ nCalls' = nCalls + 1
    /\ lastCall' = Call("flushWrites", "ok")
    /\ FlushWrites
    /\ UNCHANGED <<opVars, bulkVars, hooks, hasValidator, store, hookLog, nextAuto, txPc, attempt,
                   writeQueue, txReads, hookIdx, cbResult, outcome>>

\* The callback returns r: runInTransaction flushes and hands the handle to
\* the store for commit.
CallbackReturn(r) ==
    /\ txPc = "callback"
    /\ FlushWrites
    /\ cbResult' = r
    /\ txPc' = "commit"
    /\ UNCHANGED <<opVars, bulkVars, hooks, hasValidator, store, hookLog, nextAuto, attempt,
                   writeQueue, txReads, nCalls, lastCall, hookIdx, outcome>>

\* The callback throws: the store rolls the transaction back and
\* runInTransaction rethrows.
CallbackThrowFlushes ==
    /\ txPc = "callback"
    /\ FlushWrites
    /\ txPc' = "rejected"
    /\ outcome' = [kind |-> "rejected", value |-> "callbackError"]
    /\ UNCHANGED <<opVars, bulkVars, hooks, hasValidator, store, hookLog, nextAuto, attempt,
                   writeQueue, txReads, nCalls, lastCall, hookIdx, cbResult>>

CallbackThrow ==
    /\ txPc = "callback"
    /\ txPc' = "rejected"
    /\ outcome' = [kind |-> "rejected", value |-> "callbackError"]
    /\ UNCHANGED <<opVars, bulkVars, hooks, hasValidator, store, hookLog, nextAuto, attempt,
                   writeQueue, afterCommitHooks, hasExecutedWrites, txWrites,
                   txReads, nCalls, lastCall, hookIdx, cbResult, flushRuns>>

\* The native commit succeeds: the handle's writes reach the store atomically.
CommitOk ==
    /\ txPc = "commit"
    /\ store' = ApplyWrites(store, txWrites)
    /\ txPc' = "afterHooks"
    /\ UNCHANGED <<opVars, bulkVars, hooks, hasValidator, hookLog, nextAuto, attempt, writeQueue,
                   afterCommitHooks, hasExecutedWrites, txWrites, txReads,
                   nCalls, lastCall, hookIdx, cbResult, outcome, flushRuns>>

\* The native commit fails on contention and the store invokes the update
\* function again.
CommitRetry ==
    /\ txPc = "commit"
    /\ attempt < MaxAttempts
    /\ NewAttempt
    /\ UNCHANGED <<opVars, bulkVars, hooks, hasValidator, store, hookLog, nextAuto, outcome>>

\* The native commit fails for good: db.runTransaction rejects.
CommitFail ==
    /\ txPc = "commit"
    /\ txPc' = "rejected"
    /\ outcome' = [kind |-> "rejected", value |-> "commitError"]
    /\ UNCHANGED <<opVars, bulkVars, hooks, hasValidator, store, hookLog, nextAuto, attempt,
                   writeQueue, afterCommitHooks, hasExecutedWrites, txWrites,
                   txReads, nCalls, lastCall, hookIdx, cbResult, flushRuns>>

\* runAfterCommitHooks: the try/catch around each hook closure keeps its error
\* inside the loop.
HookErrorEscapes(threw) == threw

HookErrorPropagates(threw) == FALSE

\* One iteration of runAfterCommitHooks' loop.
RunAfterCommitHook ==
    /\ txPc = "afterHooks"
    /\ hookIdx <= Len(afterCommitHooks)
    /\ LET h == afterCommitHooks[hookIdx] IN
       \E k \in HookOutcomes(h.event) :
          /\ hookLog' = hookLog \o RunHooksLog(h.event, h.id, k)
          /\ IF HookErrorPropagates(k # 0)
             THEN /\ txPc' = "rejected"
                  /\ outcome' = [kind |-> "rejected", value |-> "hookError"]
                  /\ UNCHANGED hookIdx
             ELSE /\ hookIdx' = hookIdx + 1
                  /\ UNCHANGED <<txPc, outcome>>
    /\ UNCHANGED <<opVars, bulkVars, hooks, hasValidator, store, nextAuto, attempt, writeQueue,
                   afterCommitHooks, hasExecutedWrites, txWrites, txReads,
                   nCalls, lastCall, cbResult, flushRuns>>

\* runAfterCommitHooks is done: runInTransaction returns the result.
Resolve ==
    /\ txPc = "afterHooks"
    /\ hookIdx > Len(afterCommitHooks)
    /\ txPc' = "resolved"
    /\ outcome' = [kind |-> "resolved", value |-> cbResult]
    /\ UNCHANGED <<opVars, bulkVars, hooks, hasValidator, store, hookLog, nextAuto, attempt,
                   writeQueue, afterCommitHooks, hasExecutedWrites, txWrites,
                   txReads, nCalls, lastCall, hookIdx, cbResult, flushRuns>>

----------------------------------------------------------------------------
\* bulkCreate and commitInChunks.

\* The arrays bulkCreate is called with: every array of at most MaxItems
\* items, and arrays of valid items with lengths at and next to the multiples
\* of the cap.
ShortArrays == UNION {[1..n -> DataVals] : n \in 0..MaxItems}

LongArrays ==
    {[i \in 1..n |-> "good"] :
        n \in {BatchCap, BatchCap + 1, 2 * BatchCap, MaxLen}}

\* bulkCreate's loop: parseCreate of every item; the first item the schema
\* rejects throws before commitInChunks is reached.
InvalidFirstItem(arr) == arr # <<>> /\ ParseThrows(arr[1])

InvalidItem(arr) == \E i \in 1..Len(arr) : ParseThrows(arr[i])

\* actions.push(batch => batch.set(docRef, docData)), docRef = colRef.doc()
BulkActions(arr) ==
    [i \in 1..Len(arr) |->
        [op |-> "set", id |-> AutoId(nextAuto + i - 1), doc |-> ActiveDoc(arr[i])]]

BulkCreate(arr) ==
    /\ bulkPc = "idle"
    /\ txPc = "idle"
    /\ opPc = "idle"
    /\ dataArray' = arr
    /\ actIdx' = 1
    /\ batch' = <<>>
    /\ counter' = 0
    /\ IF InvalidItem(arr)
       THEN /\ bulkPc' = "failed"
            /\ bulkErr' = "ValidationError"
            /\ UNCHANGED <<actions, hookLog, nextAuto>>
       ELSE /\ actions' = BulkActions(arr)
            /\ nextAuto' = nextAuto + Len(arr)
            /\ \E k \in HookOutcomes("beforeBulkCreate") :
                  /\ hookLog' = hookLog \o RunHooksLog("beforeBulkCreate", 0, k)
                  /\ IF k # 0
                     THEN /\ bulkPc' = "failed"
                          /\ bulkErr' = "HookError"
                     ELSE /\ bulkPc' = "loop"
                          /\ UNCHANGED bulkErr
    /\ UNCHANGED <<opVars, txVars, hooks, hasValidator, store, pending, commits,
                   commitCalls>>

\* commitInChunks: the test that closes a batch.
ChunkFullLate(c) == c > BatchCap

ChunkFull(c) == c = BatchCap

\* One iteration of commitInChunks' loop: action(batch); counter++; at the
\* cap, batch.commit() is called and awaited.
ChunkAction ==
    /\ bulkPc = "loop"
    /\ actIdx <= Len(actions)
    /\ batch' = Append(batch, actions[actIdx])
    /\ actIdx' = actIdx + 1
    /\ counter' = counter + 1
    /\ IF ChunkFull(counter + 1)
       THEN /\ pending' = Append(pending, batch')
            /\ commitCalls' = commitCalls + 1
            /\ bulkPc' = "commit"
       ELSE UNCHANGED <<pending, commitCalls, bulkPc>>
    /\ UNCHANGED <<opVars, txVars, hooks, hasValidator, store, hookLog, nextAuto,
                   dataArray, actions, commits, bulkErr>>

\* The store's effect of a committed batch: its operations applied in order,
\* all at once. For each document the last set or delete decides what the
\* later merges and updates (field by field, the last one wins) work on.
OpsOn(b, i) == {j \in DOMAIN b : b[j].id = i}

MaxOf(S) == CHOOSE j \in S : \A m \in S : m <= j

BaseAt(b, i) ==
    LET S == {j \in OpsOn(b, i) : b[j].op \in {"set", "delete"}}
    IN  IF S = {} THEN 0 ELSE MaxOf(S)

BaseDoc(s, b, i) ==
    LET j == BaseAt(b, i)
    IN  IF j = 0 THEN Snapshot(s, i)
        ELSE IF b[j].op = "set" THEN [exists |-> TRUE, data |-> b[j].doc]
        ELSE Missing

LaterOps(b, i) == {j \in OpsOn(b, i) : j > BaseAt(b, i)}

DocAfter(s, b, i) ==
    LET base   == BaseDoc(s, b, i)
        later  == LaterOps(b, i)
        fields == (IF base.exists THEN DOMAIN base.data ELSE {})
                     \cup UNION {DOMAIN b[j].doc : j \in later}
        Sets(f) == {j \in later : f \in DOMAIN b[j].doc}
    IN  [f \in fields |-> IF Sets(f) = {} THEN base.data[f]
                          ELSE b[MaxOf(Sets(f))].doc[f]]

ExistsAfter(s, b, i) == BaseDoc(s, b, i).exists \/ LaterOps(b, i) # {}

ApplyBatch(s, b) ==
    LET ids == {b[j].id : j \in DOMAIN b}
    IN  [i \in {x \in DOMAIN s \cup ids : x \in ids => ExistsAfter(s, b, x)} |->
            IF i \in ids THEN DocAfter(s, b, i) ELSE s[i]]

\* batch.update on a document that does not exist fails the commit of the
\* whole batch (NOT_FOUND); set, set-merge and delete have no precondition.
BatchFails(s, b) ==
    \E j \in DOMAIN b :
        /\ b[j].op = "update"
        /\ LET prior == {m \in OpsOn(b, b[j].id) : m < j}
           IN  IF prior = {} THEN ~Exists(s, b[j].id)
               ELSE b[MaxOf(prior)].op = "delete"

\* The awaited commit of a full batch succeeds: a fresh batch, counter = 0.
ChunkCommitOk ==
    /\ bulkPc = "commit"
    /\ ~BatchFails(store, Head(pending))
    /\ commits' = Append(commits, Head(pending))
    /\ store' = ApplyBatch(store, Head(pending))
    /\ pending' = Tail(pending)
    /\ batch' = <<>>
    /\ counter' = 0
    /\ bulkPc' = "loop"
    /\ UNCHANGED <<opVars, txVars, hooks, hasValidator, hookLog, nextAuto, dataArray,
                   actions, actIdx, commitCalls, bulkErr>>

\* An awaited commit fails: the error leaves commitInChunks and the caller.
ChunkCommitFailContinues ==
    /\ bulkPc \in {"commit", "final"}
    /\ pending' = Tail(pending)
    /\ batch' = <<>>
    /\ counter' = 0
    /\ bulkPc' = IF bulkPc = "commit" THEN "loop" ELSE "after"
    /\ bulkErr' = "StoreError"
    /\ UNCHANGED <<opVars, txVars, hooks, hasValidator, store, hookLog, nextAuto,
                   dataArray, actions, actIdx, commits, commitCalls>>

ChunkCommitFail ==
    /\ bulkPc \in {"commit", "final"}
    /\ pending' = Tail(pending)
    /\ bulkPc' = "failed"
    /\ bulkErr' = "StoreError"
    /\ UNCHANGED <<opVars, txVars, hooks, hasValidator, store, hookLog, nextAuto,
                   dataArray, actions, actIdx, batch, counter, commits,
                   commitCalls>>

\* The loop is over: if (counter > 0) await batch.commit().
ChunkEnd ==
    /\ bulkPc = "loop"
    /\ actIdx > Len(actions)
    /\ IF counter > 0
       THEN /\ pending' = Append(pending, batch)
            /\ commitCalls' = commitCalls + 1
            /\ bulkPc' = "final"
       ELSE /\ bulkPc' = "after"
            /\ UNCHANGED <<pending, commitCalls>>
    /\ UNCHANGED <<opVars, txVars, hooks, hasValidator, store, hookLog, nextAuto,
                   dataArray, actions, actIdx, batch, counter, commits, bulkErr>>

\* The awaited commit of the last batch succeeds: commitInChunks returns.
FinalCommitOk ==
    /\ bulkPc = "final"
    /\ ~BatchFails(store, Head(pending))
    /\ commits' = Append(commits, Head(pending))
    /\ store' = ApplyBatch(store, Head(pending))
    /\ pending' = Tail(pending)
    /\ bulkPc' = "after"
    /\ UNCHANGED <<opVars, txVars, hooks, hasValidator, hookLog, nextAuto, dataArray,
                   actions, actIdx, batch, counter, commitCalls, bulkErr>>

\* bulkCreate's runHooks('afterBulkCreate', createdDocs) and return.
AfterBulkCreate ==
    /\ bulkPc = "after"
    /\ opPc = "idle"
    /\ \E k \in HookOutcomes("afterBulkCreate") :
          /\ hookLog' = hookLog \o RunHooksLog("afterBulkCreate", 0, k)
          /\ IF k # 0
             THEN /\ bulkPc' = "failed"
                  /\ bulkErr' = "HookError"
             ELSE /\ bulkPc' = "done"
                  /\ UNCHANGED bulkErr
    /\ UNCHANGED <<opVars, txVars, hooks, hasValidator, store, nextAuto, dataArray,
                   actions, actIdx, batch, counter, pending, commits,
                   commitCalls>>

----------------------------------------------------------------------------
\* The repository's single-entity operations: create, update, upsert.

MaxRegistered == 2  \* callbacks registered on the repository (these calls)

\* A document is a function from its field names to values. T has the two
\* fields data and note; the library adds deletedAt (and, on update, id).
PayloadFields == {"data", "note"}

\* create / upsert take a full T, update takes a Partial<T>.
Drafts == [PayloadFields -> DataVals]

Partials == UNION {[F -> DataVals] : F \in (SUBSET PayloadFields) \ {{}}}

InvalidNever(p) == FALSE

\* parseCreate / parseUpdate throw when the schema rejects a field.
Invalid(p) == \E f \in DOMAIN p : ParseThrows(p[f])

\* { ...a, ...b }
Spread(a, b) ==
    [f \in DOMAIN a \cup DOMAIN b |-> IF f \in DOMAIN b THEN b[f] ELSE a[f]]

StoredDoc(del) == [data |-> "old", note |-> "old", deletedAt |-> del]

\* data?.deletedAt is truthy: the field is there and holds a stamp.
IsSoftDeleted(doc) == "deletedAt" \in DOMAIN doc /\ doc["deletedAt"] # "null"

\* One step of the operation in flight.
Step(kind, id, res) ==
    [kind |-> kind, event |-> "none", fn |-> "none", pos |-> 0, id |-> id,
     res |-> res]

HookSteps(event, id, k) ==
    LET l == RunHooksLog(event, id, k)
    IN  [i \in 1..Len(l) |->
            [kind |-> "hook", event |-> event, fn |-> l[i].fn, pos |-> i,
             id |-> id, res |-> l[i].res]]

Ok(v)    == [kind |-> "ok", value |-> v]
Error(e) == [kind |-> "error", value |-> e]
NoResult == [kind |-> "pending", value |-> "none"]

Idle == opPc = "idle" /\ txPc = "idle" /\ bulkPc = "idle"

\* The operation is called: its name, its arguments, the collection then.
Called(name, args) ==
    /\ Idle
    /\ opName' = name
    /\ opArgs' = args
    /\ storeAtCall' = store

\* create(data) up to its store call: parseCreate, stamp deletedAt = null,
\* runHooks('beforeCreate', docToCreate).
Create(data) ==
    /\ Called("create", [id |-> 0, data |-> data])
    /\ IF Invalid(data)
       THEN /\ opLog' = <<Step("parse", 0, "throw")>>
            /\ opResult' = Error("ValidationError")
            /\ opPc' = "done"
            /\ UNCHANGED <<hookLog, opSnap>>
       ELSE \E k \in HookOutcomes("beforeCreate") :
              /\ opSnap' = Spread(data, [deletedAt |-> "null"])
              /\ opLog' = <<Step("parse", 0, "ok")>>
                             \o HookSteps("beforeCreate", 0, k)
              /\ hookLog' = hookLog \o RunHooksLog("beforeCreate", 0, k)
              /\ IF k # 0
                 THEN opResult' = Error("HookError") /\ opPc' = "done"
                 ELSE opPc' = "createAdd" /\ UNCHANGED opResult
    /\ UNCHANGED <<txVars, bulkVars, hooks, hasValidator, store, nextAuto>>

\* await this.col().add(docToCreate) resolves: a new document under a
\* store-generated id.
CreateAdd ==
    /\ opPc = "createAdd"
    /\ store' = (AutoId(nextAuto) :> opSnap) @@ store
    /\ nextAuto' = nextAuto + 1
    /\ opArgs' = [opArgs EXCEPT !.id = AutoId(nextAuto)]
    /\ opLog' = Append(opLog, Step("write", AutoId(nextAuto), "ok"))
    /\ opPc' = "createAfter"
    /\ UNCHANGED <<txVars, bulkVars, hooks, hasValidator, hookLog, opName,
                   opSnap, opResult, storeAtCall>>

\* runHooks('afterCreate', created); return created.
CreateAfter ==
    /\ opPc = "createAfter"
    /\ \E k \in HookOutcomes("afterCreate") :
          /\ opLog' = opLog \o HookSteps("afterCreate", opArgs.id, k)
          /\ hookLog' = hookLog \o RunHooksLog("afterCreate", opArgs.id, k)
          /\ opResult' = IF k # 0 THEN Error("HookError")
                         ELSE Ok(Spread(opSnap, [id |-> opArgs.id]))
    /\ opPc' = "done"
    /\ UNCHANGED <<txVars, bulkVars, hooks, hasValidator, store, nextAuto,
                   opName, opArgs, opSnap, storeAtCall>>

\* A single-document store call (get, add, set, update) is rejected by the store:
\* the error leaves the operation, nothing is written.
StoreCallFails ==
    /\ opPc \in {"createAdd", "updateSet", "upsertSet", "restoreUpdate"}
    /\ opLog' = Append(opLog, Step("write", opArgs.id, "throw"))
    /\ opResult' = Error("StoreError")
    /\ opPc' = "done"
    /\ UNCHANGED <<txVars, bulkVars, hooks, hasValidator, store, hookLog,
                   nextAuto, opName, opArgs, opSnap, storeAtCall>>

\* update(id, data) up to its write: docRef.get(), NotFoundError if the
\* snapshot does not exist, parseUpdate, runHooks('beforeUpdate', toUpdate).
UpdateBody(id, data) ==
    LET snapshot == Snapshot(store, id)
        read     == Append(opLog, Step("read", id, "ok"))
    IN
    /\ IF ~snapshot.exists
       THEN /\ opLog' = read
            /\ opResult' = Error("NotFoundError")
            /\ opPc' = "done"
            /\ UNCHANGED <<hookLog, opSnap>>
       ELSE IF Invalid(data)
       THEN /\ opLog' = Append(read, Step("parse", id, "throw"))
            /\ opResult' = Error("ValidationError")
            /\ opPc' = "done"
            /\ UNCHANGED <<hookLog, opSnap>>
       ELSE \E k \in HookOutcomes("beforeUpdate") :
              /\ opSnap' = [snapshot |-> snapshot.data,
                            toUpdate |-> Spread(data, [id |-> id])]
              /\ opLog' = Append(read, Step("parse", id, "ok"))
                             \o HookSteps("beforeUpdate", id, k)
              /\ hookLog' = hookLog \o RunHooksLog("beforeUpdate", id, k)
              /\ IF k # 0
                 THEN opResult' = Error("HookError") /\ opPc' = "done"
                 ELSE opPc' = "updateSet" /\ UNCHANGED opResult
    /\ UNCHANGED <<txVars, bulkVars, hooks, hasValidator, store, nextAuto>>

Update(id, data) ==
    /\ Called("update", [id |-> id, data |-> data])
    /\ UpdateBody(id, data)

\* updated = { ...snapshot.data(), ...toUpdate }
Updated == Spread(opSnap.snapshot, opSnap.toUpdate)

\* The fields of T that hold a nested object (User.address in the tests).
ObjectFields == {"address"}

\* docRef.set(fields, { merge: true }): the named fields are written, the
\* document's other fields stay; a nested object is merged into the stored
\* one field by field; a key is a field name as it stands, dots included;
\* a document that is not there is created.
SetMerge(s, id, fields) ==
    IF Exists(s, id)
    THEN LET old == s[id]
             Merged(f) == IF f \in ObjectFields /\ f \in DOMAIN old
                          THEN Spread(old[f], fields[f])
                          ELSE fields[f]
         IN  [s EXCEPT ![id] = [f \in DOMAIN old \cup DOMAIN fields |->
                                   IF f \in DOMAIN fields THEN Merged(f)
                                   ELSE old[f]]]
    ELSE (id :> fields) @@ s

\* await docRef.set(updated, { merge: true }) resolves.
UpdateSet ==
    /\ opPc = "updateSet"
    /\ store' = SetMerge(store, opArgs.id, Updated)
    /\ opLog' = Append(opLog, Step("write", opArgs.id, "ok"))
    /\ opPc' = "updateAfter"
    /\ UNCHANGED <<txVars, bulkVars, hooks, hasValidator, hookLog, nextAuto,
                   opName, opArgs, opSnap, opResult, storeAtCall>>

\* runHooks('afterUpdate', updated); return updated.
UpdateAfter ==
    /\ opPc = "updateAfter"
    /\ \E k \in HookOutcomes("afterUpdate") :
          /\ opLog' = opLog \o HookSteps("afterUpdate", opArgs.id, k)
          /\ hookLog' = hookLog \o RunHooksLog("afterUpdate", opArgs.id, k)
          /\ opResult' = IF k # 0 THEN Error("HookError") ELSE Ok(Updated)
    /\ opPc' = "done"
    /\ UNCHANGED <<txVars, bulkVars, hooks, hasValidator, store, nextAuto,
                   opName, opArgs, opSnap, storeAtCall>>

\* getById(id): null when the document does not exist or is soft-deleted.
Null == [isNull |-> TRUE, doc |-> <<>>]

GetById(s, id) ==
    LET snapshot == Snapshot(s, id)
    IN  IF ~snapshot.exists THEN Null
        ELSE IF IsSoftDeleted(snapshot.data) THEN Null
        ELSE [isNull |-> FALSE, doc |-> Spread(snapshot.data, [id |-> id])]

\* upsert(id, data) up to its first store write: getById(id); when it
\* returns a document, update(id, data) is called; otherwise parseCreate,
\* stamp deletedAt = null, runHooks('beforeCreate', { ...docToCreate, id }).
Upsert(id, data) ==
    LET read == <<Step("read", id, "ok")>>
    IN
    /\ Called("upsert", [id |-> id, data |-> data])
    /\ IF ~GetById(store, id).isNull
       THEN /\ opLog' = read
            /\ opPc' = "upsertUpdate"
            /\ UNCHANGED <<hookLog, opSnap, opResult>>
       ELSE IF Invalid(data)
       THEN /\ opLog' = Append(read, Step("parse", id, "throw"))
            /\ opResult' = Error("ValidationError")
            /\ opPc' = "done"
            /\ UNCHANGED <<hookLog, opSnap>>
       ELSE \E k \in HookOutcomes("beforeCreate") :
              /\ opSnap' = Spread(data, [deletedAt |-> "null"])
              /\ opLog' = Append(read, Step("parse", id, "ok"))
                             \o HookSteps("beforeCreate", id, k)
              /\ hookLog' = hookLog \o RunHooksLog("beforeCreate", id, k)
              /\ IF k # 0
                 THEN opResult' = Error("HookError") /\ opPc' = "done"
                 ELSE opPc' = "upsertSet" /\ UNCHANGED opResult
    /\ UNCHANGED <<txVars, bulkVars, hooks, hasValidator, store, nextAuto>>

\* if (existing) return await this.update(id, data)
UpsertUpdate ==
    /\ opPc = "upsertUpdate"
    /\ UpdateBody(opArgs.id, opArgs.data)
    /\ UNCHANGED <<opName, opArgs, storeAtCall>>

\* await docRef.set(docToCreate) resolves: the document at id is replaced.
UpsertSet ==
    /\ opPc = "upsertSet"
    /\ store' = (opArgs.id :> opSnap) @@ store
    /\ opLog' = Append(opLog, Step("write", opArgs.id, "ok"))
    /\ opPc' = "upsertAfter"
    /\ UNCHANGED <<txVars, bulkVars, hooks, hasValidator, hookLog, nextAuto,
                   opName, opArgs, opSnap, opResult, storeAtCall>>

\* runHooks('afterCreate', created); return created.
UpsertAfter ==
    /\ opPc = "upsertAfter"
    /\ \E k \in HookOutcomes("afterCreate") :
          /\ opLog' = opLog \o HookSteps("afterCreate", opArgs.id, k)
          /\ hookLog' = hookLog \o RunHooksLog("afterCreate", opArgs.id, k)
          /\ opResult' = IF k # 0 THEN Error("HookError")
                         ELSE Ok(Spread(opSnap, [id |-> opArgs.id]))
    /\ opPc' = "done"
    /\ UNCHANGED <<txVars, bulkVars, hooks, hasValidator, store, nextAuto,
                   opName, opArgs, opSnap, storeAtCall>>

\* Another client writes one field of the document that update() has read
\* and not yet written.
OtherWrite(f) ==
    /\ opPc = "updateSet"
    /\ Exists(store, opArgs.id)
    /\ \A i \in 1..Len(opLog) : opLog[i].kind # "other"
    /\ store' = [store EXCEPT ![opArgs.id] = Spread(@, f :> "theirs")]
    /\ opLog' = Append(opLog, Step("other", opArgs.id, f))
    /\ UNCHANGED <<txVars, bulkVars, hooks, hasValidator, hookLog, nextAuto,
                   opPc, opName, opArgs, opSnap, opResult, storeAtCall>>

----------------------------------------------------------------------------
\* The repository's bulk operations on existing documents: bulkUpdate,
\* bulkDelete, bulkSoftDelete. Each hands its actions to commitInChunks.

\* new Date().toISOString()
Stamps == {"t1", "t2"}

\* The lists the bulk calls are given: at most MaxItems entries, ids may
\* repeat and may be missing from the collection.
IdLists == UNION {[1..n -> KnownIds] : n \in 0..MaxItems}

BulkPartials == {[data |-> "good"], [data |-> "bad"], [note |-> "good"]}

UpdateLists ==
    UNION {[1..n -> [id : KnownIds, data : BulkPartials]] : n \in 0..MaxItems}

\* Promise.all(ids.map(id => this.col().doc(id).get()))
Snapshots(ids) == [i \in 1..Len(ids) |-> Snapshot(store, ids[i])]

ReadSteps(ids) == [i \in 1..Len(ids) |-> Step("read", ids[i], "ok")]

DocsDataUnfiltered(ids, snapshots) ==
    [i \in 1..Len(ids) |-> Spread(snapshots[i].data, [id |-> ids[i]])]

\* snapshots.filter(s => s.exists).map(s => ({ ...s.data(), id: s.id }))
RECURSIVE DocsData(_, _)
DocsData(ids, snapshots) ==
    IF ids = <<>> THEN <<>>
    ELSE LET rest == DocsData(Tail(ids), Tail(snapshots))
         IN  IF Head(snapshots).exists
             THEN <<Spread(Head(snapshots).data, [id |-> Head(ids)])>> \o rest
             ELSE rest

DocIds(docs) == [i \in 1..Len(docs) |-> docs[i]["id"]]

\* The call reaches commitInChunks(acts); payload and ret are what the
\* after-hooks get and what the call returns when the commits succeed.
StartCommit(acts, payload, ret) ==
    /\ actions' = acts
    /\ actIdx' = 1
    /\ batch' = <<>>
    /\ counter' = 0
    /\ bulkPc' = "loop"
    /\ opPc' = "commit"
    /\ opSnap' = [payload |-> payload, ret |-> ret]
    /\ UNCHANGED <<opResult, bulkErr>>

\* The call ends before commitInChunks is reached.
EndsWith(result) ==
    /\ opResult' = result
    /\ opPc' = "done"
    /\ UNCHANGED <<opSnap, actions, actIdx, batch, counter, bulkPc, bulkErr>>

\* bulkUpdate's loop stops at the first entry whose snapshot does not exist
\* (NotFoundError) or whose data the schema rejects (ZodError).
UpdateThrowsOnInvalid(u, snapshot) == Invalid(u.data)

UpdateThrowsOnMissing(u, snapshot) == ~snapshot.exists

UpdateThrows(u, snapshot) == ~snapshot.exists \/ Invalid(u.data)

FirstThrow(updates, snapshots) ==
    LET bad == {i \in 1..Len(updates) : UpdateThrows(updates[i], snapshots[i])}
    IN  IF bad = {} THEN 0 ELSE CHOOSE i \in bad : \A j \in bad : i <= j

\* merged = { ...snapshot.data(), ...validData, id }
\* actions.push(batch => batch.set(docRef, merged, { merge: true }))
MergeActions(updates, snapshots) ==
    [i \in 1..Len(updates) |->
        [op |-> "merge", id |-> updates[i].id,
         doc |-> Spread(Spread(snapshots[i].data, updates[i].data),
                        [id |-> updates[i].id])]]

MergedDocs(acts) == [i \in 1..Len(acts) |-> acts[i].doc]

\* bulkUpdate(updates) up to commitInChunks.
BulkUpdate(updates) ==
    LET ids       == [i \in 1..Len(updates) |-> updates[i].id]
        snapshots == Snapshots(ids)
        t         == FirstThrow(updates, snapshots)
        acts      == MergeActions(updates, snapshots)
    IN
    /\ Called("bulkUpdate", updates)
    /\ \E k \in HookOutcomes("beforeBulkUpdate") :
          /\ hookLog' = hookLog \o RunHooksLog("beforeBulkUpdate", updates, k)
          /\ IF k # 0
             THEN /\ opLog' = HookSteps("beforeBulkUpdate", updates, k)
                  /\ EndsWith(Error("HookError"))
             ELSE IF t # 0
             THEN /\ opLog' = HookSteps("beforeBulkUpdate", updates, k)
                                \o ReadSteps(ids)
                                \o [i \in 1..(IF snapshots[t].exists
                                              THEN t ELSE t - 1) |->
                                       Step("parse", ids[i],
                                            IF i = t THEN "throw" ELSE "ok")]
                  /\ EndsWith(Error(IF snapshots[t].exists
                                    THEN "ValidationError"
                                    ELSE "NotFoundError"))
             ELSE /\ opLog' = HookSteps("beforeBulkUpdate", updates, k)
                                \o ReadSteps(ids)
                                \o [i \in 1..Len(ids) |->
                                       Step("parse", ids[i], "ok")]
                  /\ StartCommit(acts, updates, MergedDocs(acts))
    /\ UNCHANGED <<txVars, hooks, hasValidator, store, nextAuto, dataArray,
                   pending, commits, commitCalls>>

\* actions.push(batch => batch.delete(docRef)), one per existing document.
DeleteActions(docs) ==
    [i \in 1..Len(docs) |-> [op |-> "delete", id |-> docs[i]["id"], doc |-> <<>>]]

\* bulkDelete(ids) up to commitInChunks.
BulkDelete(ids) ==
    LET docsData == DocsData(ids, Snapshots(ids))
        payload  == [ids |-> DocIds(docsData), documents |-> docsData]
    IN
    /\ Called("bulkDelete", ids)
    /\ IF docsData = <<>>
       THEN /\ opLog' = ReadSteps(ids)
            /\ EndsWith(Ok(0))
            /\ UNCHANGED hookLog
       ELSE \E k \in HookOutcomes("beforeBulkDelete") :
              /\ opLog' = ReadSteps(ids)
                             \o HookSteps("beforeBulkDelete", payload, k)
              /\ hookLog' = hookLog \o RunHooksLog("beforeBulkDelete", payload, k)
              /\ IF k # 0
                 THEN EndsWith(Error("HookError"))
                 ELSE StartCommit(DeleteActions(docsData), payload,
                                  Len(docsData))
    /\ UNCHANGED <<txVars, hooks, hasValidator, store, nextAuto, dataArray,
                   pending, commits, commitCalls>>

\* for (const id of ids) actions.push(batch => batch.update(docRef, { deletedAt }))
StampActions(ids, docs, deletedAt) ==
    [i \in 1..Len(ids) |->
        [op |-> "update", id |-> ids[i], doc |-> [deletedAt |-> deletedAt]]]

\* bulkSoftDelete(ids) up to commitInChunks.
BulkSoftDelete(ids, deletedAt) ==
    LET docsData == DocsData(ids, Snapshots(ids))
        payload  == [ids |-> DocIds(docsData), documents |-> docsData,
                     deletedAt |-> deletedAt]
    IN
    /\ Called("bulkSoftDelete", ids)
    /\ IF docsData = <<>>
       THEN /\ opLog' = ReadSteps(ids)
            /\ EndsWith(Ok(0))
            /\ UNCHANGED hookLog
       ELSE \E k \in HookOutcomes("beforeBulkSoftDelete") :
              /\ opLog' = ReadSteps(ids)
                             \o HookSteps("beforeBulkSoftDelete", payload, k)
              /\ hookLog' = hookLog
                              \o RunHooksLog("beforeBulkSoftDelete", payload, k)
              /\ IF k # 0
                 THEN EndsWith(Error("HookError"))
                 ELSE StartCommit(StampActions(ids, docsData, deletedAt),
                                  payload, Len(docsData))
    /\ UNCHANGED <<txVars, hooks, hasValidator, store, nextAuto, dataArray,
                   pending, commits, commitCalls>>

\* commitInChunks has returned: the after-hooks of the call, then its result.
AfterCommit(event) ==
    /\ opPc = "commit"
    /\ bulkPc = "after"
    /\ \E k \in HookOutcomes(event) :
          /\ opLog' = opLog \o HookSteps(event, opSnap.payload, k)
          /\ hookLog' = hookLog \o RunHooksLog(event, opSnap.payload, k)
          /\ opResult' = IF k # 0 THEN Error("HookError") ELSE Ok(opSnap.ret)
    /\ opPc' = "done"
    /\ UNCHANGED <<txVars, bulkVars, hooks, hasValidator, store, nextAuto,
                   opName, opArgs, opSnap, storeAtCall>>

\* bulkUpdate: runHooks('afterBulkUpdate', updates); return updatedDocs.
AfterBulkUpdate ==
    opName = "bulkUpdate" /\ AfterCommit("afterBulkUpdate")

\* bulkDelete: runHooks('afterBulkDelete', ...); return docsData.length.
AfterBulkDelete ==
    opName = "bulkDelete" /\ AfterCommit("afterBulkDelete")

\* bulkSoftDelete: runHooks('afterBulkSoftDelete', ...); return docsData.length.
AfterBulkSoftDelete ==
    opName = "bulkSoftDelete" /\ AfterCommit("afterBulkSoftDelete")

\* commitInChunks has thrown: catch (error) { throw parseFirestoreError(error) }
CommitThrows ==
    /\ opPc = "commit"
    /\ bulkPc = "failed"
    /\ opResult' = Error(bulkErr)
    /\ opPc' = "done"
    /\ UNCHANGED <<txVars, bulkVars, hooks, hasValidator, store, hookLog,
                   nextAuto, opName, opArgs, opSnap, opLog, storeAtCall>>

----------------------------------------------------------------------------
\* FirestoreQueryBuilder: query(), includeDeleted(), onlyDeleted(), where(),
\* and the terminal operations get(), update(), delete() and softDelete().

MaxChain == 2   \* includeDeleted() / onlyDeleted() calls on one builder

\* new FirestoreQueryBuilder(...): both flags false, the base query.
NewBuilder == [includeDeletedFlag |-> FALSE, onlyDeletedFlag |-> FALSE,
               where |-> "any", calls |-> <<>>]

Building == opPc = "building"

\* repo.query()
Query ==
    /\ Called("query", NewBuilder)
    /\ opPc' = "building"
    /\ UNCHANGED <<txVars, bulkVars, hooks, hasValidator, store, hookLog,
                   nextAuto, opSnap, opLog, opResult>>

\* A builder method changes the builder and returns it.
Chained(builder) ==
    /\ Building
    /\ opArgs' = builder
    /\ UNCHANGED <<txVars, bulkVars, hooks, hasValidator, store, hookLog,
                   nextAuto, opPc, opName, opSnap, opLog, opResult,
                   storeAtCall>>

\* includeDeleted(): this.includeDeletedFlag = true
IncludeDeleted ==
    /\ Building
    /\ Len(opArgs.calls) < MaxChain
    /\ Chained([opArgs EXCEPT !.includeDeletedFlag = TRUE,
                              !.calls = Append(@, "includeDeleted")])

\* onlyDeleted(): this.onlyDeletedFlag = true; this.includeDeletedFlag = false
OnlyDeleted ==
    /\ Building
    /\ Len(opArgs.calls) < MaxChain
    /\ Chained([opArgs EXCEPT !.onlyDeletedFlag = TRUE,
                              !.includeDeletedFlag = FALSE,
                              !.calls = Append(@, "onlyDeleted")])

\* where('data', '==', value)
Where(value) ==
    /\ Building
    /\ opArgs.where = "any"
    /\ Chained([opArgs EXCEPT !.where = value])

\* applySoftDeleteFilter: the filter added to the query.
ApplySoftDeleteFilter(b) ==
    IF b.onlyDeletedFlag THEN "deletedAt != null"
    ELSE IF ~b.includeDeletedFlag THEN "deletedAt == null"
    ELSE "none"

\* The store's evaluation of the filters. A filter on a field matches only
\* documents that have the field: '== null' wants the field present and
\* null, '!= null' wants it present and not null.
HasField(doc, f) == f \in DOMAIN doc

MatchesWhere(doc, value) ==
    value = "any" \/ (HasField(doc, "data") /\ doc["data"] = value)

MatchesFilter(doc, filter) ==
    CASE filter = "none" -> TRUE
      [] filter = "deletedAt == null" ->
            HasField(doc, "deletedAt") /\ doc["deletedAt"] = "null"
      [] filter = "deletedAt != null" ->
            HasField(doc, "deletedAt") /\ doc["deletedAt"] # "null"

\* this.query.get(): the query without the soft-delete filter.
FinalQueryUnfiltered(s, b) ==
    {i \in DOMAIN s : MatchesWhere(s[i], b.where)}

\* finalQuery.get(): the ids of snapshot.docs.
FinalQuery(s, b) ==
    {i \in DOMAIN s : /\ MatchesWhere(s[i], b.where)
                      /\ MatchesFilter(s[i], ApplySoftDeleteFilter(b))}

\* snapshot.docs.map(doc => ({ ...doc.data(), id: doc.id }))
Docs(s, ids) == [i \in ids |-> Spread(s[i], [id |-> i])]

\* get(): the documents of the filtered query.
QueryGet ==
    /\ Building
    /\ opLog' = Append(opLog, Step("read", 0, "ok"))
    /\ opResult' = Ok(Docs(store, FinalQuery(store, opArgs)))
    /\ opPc' = "done"
    /\ UNCHANGED <<txVars, bulkVars, hooks, hasValidator, store, hookLog,
                   nextAuto, opName, opArgs, opSnap, storeAtCall>>

\* The ids of a set as a list, in the order of the snapshot.
RECURSIVE Listed(_)
Listed(S) ==
    IF S = {} THEN <<>>
    ELSE LET m == CHOOSE i \in S : \A j \in S : i <= j
         IN  <<m>> \o Listed(S \ {m})

\* actions.push(batch => batch.update(doc.ref, data))
QueryUpdateActions(ids, data) ==
    [i \in 1..Len(ids) |-> [op |-> "update", id |-> ids[i], doc |-> data]]

\* update(data) up to commitInChunks: the filtered query is read; with no
\* match it returns 0; otherwise runHooks('beforeBulkUpdate', updates) and
\* one batch.update(doc.ref, data) per match. The data is not parsed.
QueryUpdate(data) ==
    LET ids     == Listed(FinalQuery(store, opArgs))
        updates == [i \in 1..Len(ids) |-> [id |-> ids[i], data |-> data]]
        read    == Append(opLog, Step("read", 0, "ok"))
    IN
    /\ Building
    /\ opName' = "queryUpdate"
    /\ storeAtCall' = store
    /\ IF ids = <<>>
       THEN /\ opLog' = read
            /\ EndsWith(Ok(0))
            /\ UNCHANGED hookLog
       ELSE \E k \in HookOutcomes("beforeBulkUpdate") :
              /\ opLog' = read \o HookSteps("beforeBulkUpdate", updates, k)
              /\ hookLog' = hookLog \o RunHooksLog("beforeBulkUpdate", updates, k)
              /\ IF k # 0
                 THEN EndsWith(Error("HookError"))
                 ELSE StartCommit(QueryUpdateActions(ids, data), updates,
                                  Len(ids))
    /\ UNCHANGED <<txVars, hooks, hasValidator, store, nextAuto, dataArray,
                   pending, commits, commitCalls, opArgs>>

\* update(): runHooks('afterBulkUpdate', updates); return snapshot.size.
AfterQueryUpdate ==
    opName = "queryUpdate" /\ AfterCommit("afterBulkUpdate")

----------------------------------------------------------------------------
\* delete() up to commitInChunks: the filtered query is read; with no match
\* it returns 0; otherwise runHooks('beforeBulkDelete', { ids, documents })
\* and one batch.delete(doc.ref) per match.
QueryDelete ==
    LET ids      == Listed(FinalQuery(store, opArgs))
        docsData == [i \in 1..Len(ids) |-> Spread(store[ids[i]], [id |-> ids[i]])]
        payload  == [ids |-> ids, documents |-> docsData]
        read     == Append(opLog, Step("read", 0, "ok"))
    IN
    /\ Building
    /\ opName' = "queryDelete"
    /\ storeAtCall' = store
    /\ IF ids = <<>>
       THEN /\ opLog' = read
            /\ EndsWith(Ok(0))
            /\ UNCHANGED hookLog
       ELSE \E k \in HookOutcomes("beforeBulkDelete") :
              /\ opLog' = read \o HookSteps("beforeBulkDelete", payload, k)
              /\ hookLog' = hookLog \o RunHooksLog("beforeBulkDelete", payload, k)
              /\ IF k # 0
                 THEN EndsWith(Error("HookError"))
                 ELSE StartCommit(DeleteActions(docsData), payload, Len(ids))
    /\ UNCHANGED <<txVars, hooks, hasValidator, store, nextAuto, dataArray,
                   pending, commits, commitCalls, opArgs>>

\* delete(): runHooks('afterBulkDelete', ...); return snapshot.size.
AfterQueryDelete ==
    opName = "queryDelete" /\ AfterCommit("afterBulkDelete")

\* actions.push(batch => batch.update(doc.ref, { deletedAt: <now> }))
QueryStampActions(ids, deletedAt) ==
    [i \in 1..Len(ids) |->
        [op |-> "update", id |-> ids[i], doc |-> [deletedAt |-> deletedAt]]]

\* softDelete() up to commitInChunks: the filtered query is read; with no
\* match it returns 0; otherwise runHooks('beforeBulkSoftDelete', ...) and
\* one batch.update(doc.ref, { deletedAt }) per match.
QuerySoftDelete(deletedAt) ==
    LET ids      == Listed(FinalQuery(store, opArgs))
        docsData == [i \in 1..Len(ids) |-> Spread(store[ids[i]], [id |-> ids[i]])]
        payload  == [ids |-> ids, documents |-> docsData]
        read     == Append(opLog, Step("read", 0, "ok"))
    IN
    /\ Building
    /\ opName' = "querySoftDelete"
    /\ storeAtCall' = store
    /\ IF ids = <<>>
       THEN /\ opLog' = read
            /\ EndsWith(Ok(0))
            /\ UNCHANGED hookLog
       ELSE \E k \in HookOutcomes("beforeBulkSoftDelete") :
              /\ opLog' = read \o HookSteps("beforeBulkSoftDelete", payload, k)
              /\ hookLog' = hookLog
                              \o RunHooksLog("beforeBulkSoftDelete", payload, k)
              /\ IF k # 0
                 THEN EndsWith(Error("HookError"))
                 ELSE StartCommit(QueryStampActions(ids, deletedAt), payload,
                                  Len(ids))
    /\ UNCHANGED <<txVars, hooks, hasValidator, store, nextAuto, dataArray,
                   pending, commits, commitCalls, opArgs>>

\* softDelete(): runHooks('afterBulkSoftDelete', ...); return snapshot.size.
AfterQuerySoftDelete ==
    opName = "querySoftDelete" /\ AfterCommit("afterBulkSoftDelete")

----------------------------------------------------------------------------

\* Updates of documents with a nested object, by keys that are dot paths.

\* The keys of the update data; key.split('.') of each.
DotKeys == {"address.city", "address.zip", "address..city", ".address",
            "address."}

Split(key) ==
    CASE key = "address.city"  -> <<"address", "city">>
      [] key = "address.zip"   -> <<"address", "zip">>
      [] key = "address..city" -> <<"address", "", "city">>
      [] key = ".address"      -> <<"", "address">>
      [] key = "address."      -> <<"address", "">>
      [] OTHER                 -> <<key>>

\* isDotNotation(key): key.includes('.')
IsDotNotation(key) == Len(Split(key)) > 1

\* validateDotNotationPath(key) throws: the key is empty, starts or ends
\* with a dot, or has an empty part.
PathThrows(key) == \E i \in 1..Len(Split(key)) : Split(key)[i] = ""

\* Partial<User> as the tests pass it: one dot-path key, or the address
\* object under its plain name.
DotPartials ==
    {(k :> "Boulder") : k \in DotKeys} \cup {[address |-> [city |-> "Boulder"]]}

DotUpdateLists ==
    UNION {[1..n -> [id : KnownIds, data : {(k :> "Boulder") : k \in DotKeys}]] :
              n \in 1..MaxItems}

\* A stored User: with an address, or without one.
NestedDocs ==
    {[data |-> "old", deletedAt |-> "null",
      address |-> [street |-> "Main", city |-> "Denver"]],
     [data |-> "old", deletedAt |-> "null"]}

----------------------------------------------------------------------------

\* restore(id), called up to MaxRestores times one after the other.

MaxRestores == 2   \* restore calls in a row

\* The number of restore calls made so far: each one starts with a read.
RestoreCalls == Cardinality({i \in 1..Len(opLog) : opLog[i].kind = "read"})

\* docRef.update({ deletedAt: null }) with the FieldValue.delete() sentinel
\* in place of null.
RestoredWithoutField(doc) == [f \in DOMAIN doc \ {"deletedAt"} |-> doc[f]]

\* docRef.update({ deletedAt: null }): the field is set, the others stay.
Restored(doc) == Spread(doc, [deletedAt |-> "null"])

\* restore(id) up to its write: docRef.get(), NotFoundError if the snapshot
\* does not exist, runHooks('beforeRestore', docData).
Restore(id) ==
    LET snapshot == Snapshot(store, id)
        read     == Append(opLog, Step("read", id, "ok"))
    IN
    /\ opPc \in {"idle", "done"}
    /\ txPc = "idle"
    /\ bulkPc = "idle"
    /\ RestoreCalls < MaxRestores
    /\ opName' = "restore"
    /\ opArgs' = [id |-> id]
    /\ storeAtCall' = store
    /\ IF ~snapshot.exists
       THEN /\ opLog' = read
            /\ opResult' = Error("NotFoundError")
            /\ opPc' = "done"
            /\ UNCHANGED <<hookLog, opSnap>>
       ELSE \E k \in HookOutcomes("beforeRestore") :
              /\ opSnap' = Spread(snapshot.data, [id |-> id])
              /\ opLog' = read \o HookSteps("beforeRestore", id, k)
              /\ hookLog' = hookLog \o RunHooksLog("beforeRestore", id, k)
              /\ IF k # 0
                 THEN opResult' = Error("HookError") /\ opPc' = "done"
                 ELSE opPc' = "restoreUpdate" /\ opResult' = NoResult
    /\ UNCHANGED <<txVars, bulkVars, hooks, hasValidator, store, nextAuto>>

\* await docRef.update({ deletedAt: null }) resolves.
RestoreUpdate ==
    /\ opPc = "restoreUpdate"
    /\ Exists(store, opArgs.id)
    /\ store' = [store EXCEPT ![opArgs.id] = Restored(@)]
    /\ opLog' = Append(opLog, Step("write", opArgs.id, "ok"))
    /\ opPc' = "restoreAfter"
    /\ UNCHANGED <<txVars, bulkVars, hooks, hasValidator, hookLog, nextAuto,
                   opName, opArgs, opSnap, opResult, storeAtCall>>

\* runHooks('afterRestore', { ...docData, deletedAt: null }); return.
RestoreAfter ==
    /\ opPc = "restoreAfter"
    /\ \E k \in HookOutcomes("afterRestore") :
          /\ opLog' = opLog \o HookSteps("afterRestore", opArgs.id, k)
          /\ hookLog' = hookLog \o RunHooksLog("afterRestore", opArgs.id, k)
          /\ opResult' = IF k # 0 THEN Error("HookError") ELSE Ok("void")
    /\ opPc' = "done"
    /\ UNCHANGED <<txVars, bulkVars, hooks, hasValidator, store, nextAuto,
                   opName, opArgs, opSnap, storeAtCall>>

----------------------------------------------------------------------------

InitStores == { (1 :> d) : d \in {ActiveDoc("good"), DeletedDoc("good")} }

\* Everything but the collection's documents.
InitRepository ==
    /\ hooks = [e \in HookEvent |-> <<>>]
    /\ hasValidator \in BOOLEAN
    /\ opPc = "idle"
    /\ opName = "none"
    /\ opArgs = <<>>
    /\ opSnap = <<>>
    /\ opLog = <<>>
    /\ opResult = NoResult
    /\ storeAtCall = <<>>
    /\ hookLog = <<>>
    /\ nextAuto = 1
    /\ bulkPc = "idle"
    /\ dataArray = <<>>
    /\ actions = <<>>
    /\ actIdx = 1
    /\ batch = <<>>
    /\ counter = 0
    /\ pending = <<>>
    /\ commits = <<>>
    /\ commitCalls = 0
    /\ bulkErr = "none"
    /\ txPc = "idle"
    /\ attempt = 0
    /\ writeQueue = <<>>
    /\ afterCommitHooks = <<>>
    /\ hasExecutedWrites = FALSE
    /\ txWrites = <<>>
    /\ txReads = 0
    /\ nCalls = 0
    /\ lastCall = NoCall
    /\ hookIdx = 1
    /\ cbResult = "none"
    /\ outcome = NoOutcome
    /\ flushRuns = 0

Init == InitRepository /\ store \in InitStores

NextTx ==
    \/ \E e \in TxEvents, f \in Fns : On(e, f)
    \/ RunInTransaction
    \/ \E i \in KnownIds, b \in BOOLEAN : CtxGet(i, b)
    \/ \E d \in DataVals : CtxCreate(d)
    \/ \E i \in KnownIds, d \in DataVals : CtxUpdate(i, d)
    \/ \E i \in KnownIds : CtxDelete(i)
    \/ \E r \in Results : CallbackReturn(r)
    \/ CallbackThrow
    \/ CommitOk
    \/ CommitFail
    \/ RunAfterCommitHook
    \/ Resolve

\* Callbacks that use the context's get/create/update/delete.
SpecTx == Init /\ [][NextTx]_vars

\* Callbacks that also call the context's flushWrites().
NextTxFlush == NextTx \/ CtxFlushWrites

SpecTxFlush == Init /\ [][NextTxFlush]_vars

\* The store may retry the transaction on contention: callbacks that
\* create, update and delete, hooks on the post-commit events.
NextTxRetry ==
    \/ \E e \in {"afterCreate", "afterUpdate", "afterDelete"}, f \in Fns :
          On(e, f)
    \/ RunInTransaction
    \/ CtxCreate("good")
    \/ \E i \in KnownIds : CtxUpdate(i, "good")
    \/ \E i \in KnownIds : CtxDelete(i)
    \/ CallbackReturn("r1")
    \/ CallbackThrow
    \/ CommitOk
    \/ CommitRetry
    \/ CommitFail
    \/ RunAfterCommitHook
    \/ Resolve

SpecTxRetry == Init /\ [][NextTxRetry]_vars

NextBulk ==
    \/ \E e \in BulkEvents, f \in Fns : On(e, f)
    \/ \E arr \in ShortArrays \cup LongArrays : BulkCreate(arr)
    \/ ChunkAction
    \/ ChunkCommitOk
    \/ ChunkCommitFail
    \/ ChunkEnd
    \/ FinalCommitOk
    \/ AfterBulkCreate

\* bulkCreate on a collection that holds one active document.
InitBulk == Init /\ store = (1 :> ActiveDoc("good"))

SpecBulk == InitBulk /\ [][NextBulk]_vars

\* The collections the single-entity calls start from: document 1 is active,
\* soft-deleted or missing; document 2 is missing.
InitRepo ==
    /\ InitRepository
    /\ store \in {<<>>} \cup {(1 :> StoredDoc(del)) : del \in {"null", "stamp"}}

NextRepo ==
    \/ \E e \in {"beforeCreate", "afterCreate", "beforeUpdate", "afterUpdate"},
          f \in {"f", "g"} : OnBounded(MaxRegistered, e, f)
    \/ \E d \in Drafts : Create(d)
    \/ CreateAdd
    \/ CreateAfter
    \/ \E i \in KnownIds, p \in Partials : Update(i, p)
    \/ UpdateSet
    \/ UpdateAfter
    \/ \E i \in KnownIds, d \in Drafts : Upsert(i, d)
    \/ UpsertUpdate
    \/ UpsertSet
    \/ UpsertAfter
    \/ StoreCallFails

SpecRepo == InitRepo /\ [][NextRepo]_vars

\* update() racing with another client of the store.
NextRepoConc == NextRepo \/ \E f \in PayloadFields : OtherWrite(f)

SpecRepoConc == InitRepo /\ [][NextRepoConc]_vars

\* The collections the bulk calls start from: each known id is missing,
\* active or soft-deleted.
BulkStores ==
    UNION {[S -> {StoredDoc("null"), StoredDoc("stamp")}] : S \in SUBSET KnownIds}

InitRepoBulk == InitRepository /\ store \in BulkStores

\* Lists of at most MaxItems entries never fill a batch: commitInChunks
\* commits once, after its loop.
NextRepoBulk ==
    \/ \E e \in RepoBulkEvents, f \in Fns : On(e, f)
    \/ \E u \in UpdateLists : BulkUpdate(u)
    \/ \E ids \in IdLists : BulkDelete(ids)
    \/ \E ids \in IdLists, t \in Stamps : BulkSoftDelete(ids, t)
    \/ ChunkAction
    \/ ChunkCommitFail
    \/ ChunkEnd
    \/ FinalCommitOk
    \/ AfterBulkUpdate
    \/ AfterBulkDelete
    \/ AfterBulkSoftDelete
    \/ CommitThrows

SpecRepoBulk == InitRepoBulk /\ [][NextRepoBulk]_vars

\* The collections the queries run on: each known id is missing, active,
\* soft-deleted, or a document without the deletedAt field (written by
\* updateInTransaction's set-merge on a new id, or by another client).
QueryDocs(i) ==
    LET d == IF i = 1 THEN "old" ELSE "good"
    IN  {[data |-> d, note |-> "old", deletedAt |-> "null"],
         [data |-> d, note |-> "old", deletedAt |-> "stamp"],
         [data |-> d, note |-> "old"]}

InitQuery ==
    /\ InitRepository
    /\ store \in UNION { {s \in [S -> UNION {QueryDocs(i) : i \in S}] :
                             \A i \in S : s[i] \in QueryDocs(i)} :
                         S \in SUBSET KnownIds }

\* A query matches at most the known ids: commitInChunks commits once.
NextQuery ==
    \/ \E e \in RepoBulkEvents, f \in Fns : On(e, f)
    \/ Query
    \/ IncludeDeleted
    \/ OnlyDeleted
    \/ \E v \in {"old", "good"} : Where(v)
    \/ QueryGet
    \/ \E p \in BulkPartials : QueryUpdate(p)
    \/ ChunkAction
    \/ ChunkCommitFail
    \/ ChunkEnd
    \/ FinalCommitOk
    \/ AfterQueryUpdate
    \/ QueryDelete
    \/ AfterQueryDelete
    \/ \E t \in Stamps : QuerySoftDelete(t)
    \/ AfterQuerySoftDelete
    \/ CommitThrows

SpecQuery == InitQuery /\ [][NextQuery]_vars

\* The write paths that validate: create, update, bulkCreate and bulkUpdate
\* on one repository (lists of at most MaxItems entries).
NextWrites ==
    \/ \E e \in {"beforeCreate", "beforeUpdate", "beforeBulkCreate",
                 "beforeBulkUpdate"}, f \in Fns : On(e, f)
    \/ \E d \in Drafts : Create(d)
    \/ CreateAdd
    \/ CreateAfter
    \/ \E i \in KnownIds, p \in Partials : Update(i, p)
    \/ UpdateSet
    \/ UpdateAfter
    \/ StoreCallFails
    \/ \E arr \in ShortArrays : BulkCreate(arr)
    \/ AfterBulkCreate
    \/ \E u \in UpdateLists : BulkUpdate(u)
    \/ AfterBulkUpdate
    \/ ChunkAction
    \/ ChunkCommitFail
    \/ ChunkEnd
    \/ FinalCommitOk
    \/ CommitThrows

SpecWrites == InitRepoBulk /\ [][NextWrites]_vars

\* The collections restore is called on: document 1 is missing, active,
\* soft-deleted or without the deletedAt field; document 2 is missing.
InitRestore ==
    /\ InitRepository
    /\ store \in {<<>>} \cup {(1 :> StoredDoc(del)) : del \in {"null", "stamp"}}
                       \cup {(1 :> [data |-> "old", note |-> "old"])}

NextRestore ==
    \/ \E e \in RestoreEvents, f \in Fns : OnBounded(MaxRegistered, e, f)
    \/ \E i \in KnownIds : Restore(i)
    \/ RestoreUpdate
    \/ RestoreAfter
    \/ StoreCallFails

SpecRestore == InitRestore /\ [][NextRestore]_vars

\* update and bulkUpdate with dot-path keys, on a repository without schema
\* (as the dot-notation tests construct it).
InitDot ==
    /\ InitRepository
    /\ ~hasValidator
    /\ store \in UNION {[S -> NestedDocs] : S \in (SUBSET KnownIds) \ {{}}}

NextDot ==
    \/ \E e \in {"beforeUpdate", "afterUpdate", "beforeBulkUpdate",
                 "afterBulkUpdate"}, f \in Fns : On(e, f)
    \/ \E i \in KnownIds, p \in DotPartials : Update(i, p)
    \/ UpdateSet
    \/ UpdateAfter
    \/ StoreCallFails
    \/ \E u \in DotUpdateLists : BulkUpdate(u)
    \/ AfterBulkUpdate
    \/ ChunkAction
    \/ ChunkCommitFail
    \/ ChunkEnd
    \/ FinalCommitOk
    \/ CommitThrows

SpecDot == InitDot /\ [][NextDot]_vars

----------------------------------------------------------------------------
\* Properties of runInTransaction.

AfterEvents == {"afterCreate", "afterUpdate", "afterDelete"}

IsAfterEntry(e) == e.event \in AfterEvents

AfterEntries == SelectSeq(hookLog, IsAfterEntry)

Committed == txPc \in {"afterHooks", "resolved"}

CallbackReturned == txPc \in {"commit", "afterHooks", "resolved"}
                    \/ outcome.value = "commitError"

\* C1: while the callback runs the native handle has received no write; once
\* the callback has returned the handle holds exactly one write per queued
\* write, in enqueue order, from the moment the commit is attempted.
C1_WritesOnlyAfterCallback ==
    /\ txPc = "callback" => txWrites = <<>>
    /\ CallbackReturned =>
          txWrites = [i \in 1..Len(writeQueue) |-> Execute(writeQueue[i])]

C1_Witness ==
    /\ txPc = "commit"
    /\ Len(writeQueue) = 2
    /\ writeQueue[1].type = "update"
    /\ writeQueue[2].type = "create"
    /\ Len(txWrites) = 2

C3_GetAfterWriteFails ==
    (lastCall.op = "get" /\ lastCall.queued > 0) =>
        lastCall.res = "OrderingViolation"

\* C4: on a context whose writes have been flushed, a ctx.get or ctx.delete
\* call fails with an ordering violation, reads nothing from the native
\* handle and queues nothing.
C4_NoReadAfterFlush ==
    [][(/\ hasExecutedWrites
        /\ nCalls' = nCalls + 1
        /\ lastCall'.op \in {"get", "delete"})
          => (/\ lastCall'.res = "OrderingViolation"
              /\ txReads' = txReads
              /\ writeQueue' = writeQueue)]_vars

C4_Witness ==
    /\ lastCall.op = "get"
    /\ lastCall.flushed
    /\ lastCall.res = "OrderingViolation"
    /\ txReads = 0

\* The post-commit closures that invoke at least one callback, by write.
HasAfterFn(w) == hooks[w.after] # <<>>

IsFirstAfterFn(e) == IsAfterEntry(e) /\ e.pos = 1

ClosuresStarted ==
    LET es == SelectSeq(hookLog, IsFirstAfterFn)
    IN [i \in 1..Len(es) |-> <<es[i].event, es[i].id>>]

ClosuresQueued ==
    LET ws == SelectSeq(writeQueue, HasAfterFn)
    IN [i \in 1..Len(ws) |-> <<ws[i].after, ws[i].id>>]

C6_HookErrorNotPropagated ==
    /\ (\E i \in 1..Len(AfterEntries) : AfterEntries[i].res = "throw") =>
          outcome.kind # "rejected"
    /\ txPc = "resolved" => outcome = [kind |-> "resolved", value |-> cbResult]
    /\ outcome.kind = "resolved" => (txPc = "resolved" /\ cbResult \in Results)

C6_Witness ==
    /\ txPc = "resolved"
    /\ \E i \in 1..Len(AfterEntries) : AfterEntries[i].res = "throw"
    /\ outcome = [kind |-> "resolved", value |-> "r2"]

----------------------------------------------------------------------------
\* Properties of commitInChunks and bulkCreate.

RECURSIVE Flatten(_)
Flatten(bs) == IF bs = <<>> THEN <<>> ELSE Head(bs) \o Flatten(Tail(bs))

Ceil(n, c) == (n + c - 1) \div c

ChunksDone == bulkPc \in {"after", "done"}

\* C8: every committed batch holds between 1 and BatchCap actions, the
\* committed actions are a prefix of the action list in its order, and when
\* commitInChunks returns it has issued ceil(N / BatchCap) commits, one per
\* batch, that hold the N actions in their original order.
C8_ChunkedCommits ==
    /\ \A i \in 1..Len(commits) : Len(commits[i]) \in 1..BatchCap
    /\ Len(batch) <= BatchCap
    /\ LET done == Flatten(commits)
       IN  /\ Len(done) <= Len(actions)
           /\ done = SubSeq(actions, 1, Len(done))
    /\ ChunksDone =>
          /\ Len(commits) = Ceil(Len(actions), BatchCap)
          /\ commitCalls = Len(commits)
          /\ Flatten(commits) = actions

C8_Witness ==
    /\ bulkPc = "done"
    /\ Len(actions) = 2 * BatchCap + 200
    /\ Len(commits) = 3
    /\ Len(commits[1]) = BatchCap
    /\ Len(commits[2]) = BatchCap
    /\ Len(commits[3]) = 200

\* C9: at most one commit is in flight and no action is applied while it is;
\* when a commit fails the call fails at once, the commit is not issued
\* again, the documents of the batches committed before are in the store and
\* no action after the failed batch has been applied or committed.
C9_CommitFailure ==
    /\ Len(pending) <= 1
    /\ pending # <<>> => bulkPc \in {"commit", "final"}
    /\ bulkErr = "StoreError" =>
          LET done == Flatten(commits)
          IN  /\ bulkPc = "failed"
              /\ commitCalls = Len(commits) + 1
              /\ actIdx - 1 = Len(done) + Len(batch)
              /\ \A i \in 1..Len(done) :
                    Exists(store, done[i].id) /\ store[done[i].id] = done[i].doc
              /\ \A i \in (Len(done) + 1)..Len(actions) :
                    ~Exists(store, actions[i].id)
              /\ \A i \in 1..Len(hookLog) : hookLog[i].event # "afterBulkCreate"

C9_Witness ==
    /\ bulkErr = "StoreError"
    /\ Len(commits) = 1
    /\ Len(batch) = BatchCap
    /\ Len(actions) = MaxLen
    /\ Exists(store, actions[1].id)
    /\ ~Exists(store, actions[BatchCap + 1].id)

\* C10: when the schema rejects an item of the array, at any position,
\* bulkCreate fails with ValidationError, no batch has been filled or
\* committed, the store is as it was and no bulk-create hook has fired.
C10_BulkCreateValidatesFirst ==
    (/\ bulkPc # "idle"
     /\ hasValidator
     /\ \E i \in 1..Len(dataArray) : dataArray[i] = "bad") =>
        /\ bulkPc = "failed"
        /\ bulkErr = "ValidationError"
        /\ batch = <<>>
        /\ commitCalls = 0
        /\ commits = <<>>
        /\ store \in InitStores
        /\ hookLog = <<>>

C10_Witness ==
    /\ bulkErr = "ValidationError"
    /\ Len(dataArray) = 2
    /\ dataArray[1] = "good"
    /\ dataArray[2] = "bad"
    /\ hooks["beforeBulkCreate"] # <<>>

----------------------------------------------------------------------------
\* Properties of the repository's bulk operations on existing documents.

Failed(e) == opPc = "done" /\ opResult.kind = "error" /\ opResult.value = e

Returned == opPc = "done" /\ opResult.kind = "ok"

HookThrew == \E i \in 1..Len(opLog) :
                opLog[i].kind = "hook" /\ opLog[i].res = "throw"

MissingAt(i) == ~Exists(storeAtCall, opArgs[i].id)

AnyMissing == opName = "bulkUpdate" /\ \E i \in 1..Len(opArgs) : MissingAt(i)

FirstMissing == CHOOSE i \in 1..Len(opArgs) :
                    MissingAt(i) /\ \A j \in 1..(i - 1) : ~MissingAt(j)

InStoreAtCall(id) == Exists(storeAtCall, id)

ExistingIds == SelectSeq(opArgs, InStoreAtCall)

ExistingDocs ==
    [i \in 1..Len(ExistingIds) |->
        Spread(storeAtCall[ExistingIds[i]], [id |-> ExistingIds[i]])]

IdSet(ids) == {ids[i] : i \in 1..Len(ids)}

Without(s, ids) == [i \in DOMAIN s \ ids |-> s[i]]

C13_BulkSoftDeleteSkipsMissing ==
    (opName = "bulkSoftDelete" /\ opPc # "idle") =>
        /\ \A i \in 1..Len(actions) : Exists(storeAtCall, actions[i].id)
        /\ bulkPc = "final" => ~BatchFails(store, Head(pending))
        /\ Returned =>
              /\ opResult.value = Len(ExistingIds)
              /\ \A i \in IdSet(ExistingIds) :
                    store[i]["deletedAt"] = opSnap.payload.deletedAt
              /\ \A i \in 1..Len(hookLog) :
                    hookLog[i].id.deletedAt = opSnap.payload.deletedAt

----------------------------------------------------------------------------
\* Properties of the query builder.

UserMatches == {i \in DOMAIN store : MatchesWhere(store[i], opArgs.where)}

GotIds == DOMAIN opResult.value

\* C14 (as claimed): whatever the collection holds, query().get() returns
\* exactly the matching documents that are not soft-deleted,
\* query().includeDeleted().get() all matching documents and
\* query().onlyDeleted().get() exactly the matching soft-deleted ones.
C14_QuerySoftDeleteFilters ==
    (opName = "query" /\ opPc = "done") =>
        /\ opArgs.calls = <<>> =>
              GotIds = {i \in UserMatches : ~IsSoftDeleted(store[i])}
        /\ opArgs.calls = <<"includeDeleted">> => GotIds = UserMatches
        /\ opArgs.calls = <<"onlyDeleted">> =>
              GotIds = {i \in UserMatches : IsSoftDeleted(store[i])}

----------------------------------------------------------------------------
\* Properties of the repository's single-entity operations.

CreateEvents == {"beforeCreate", "afterCreate"}

UpdateEvents == {"beforeUpdate", "afterUpdate"}

HookEventsFired == {hookLog[i].event : i \in 1..Len(hookLog)}

\* What update(id, data) leaves in the store for a document that exists.
AsUpdate(s, id, data) ==
    SetMerge(s, id, Spread(s[id], Spread(data, [id |-> id])))

\* C15 (as claimed): a upsert(id, data) that returns has behaved as
\* update(id, data) if a document with that id existed, soft-deleted or not
\* (merge into the stored document, update hooks), and only if none existed
\* has it created one under that id with deletedAt = null (create hooks).
C15_UpsertUpdatesExisting ==
    (opName = "upsert" /\ Returned) =>
        IF Exists(storeAtCall, opArgs.id)
        THEN /\ store = AsUpdate(storeAtCall, opArgs.id, opArgs.data)
             /\ HookEventsFired \subseteq UpdateEvents
        ELSE /\ store = (opArgs.id :> Spread(opArgs.data, [deletedAt |-> "null"]))
                           @@ storeAtCall
             /\ HookEventsFired \subseteq CreateEvents

Registered(event) == hooks[event]

\* C16: the callbacks of an event run in registration order, one invocation
\* after the other and without de-duplication: every invocation is of the
\* callback at its position of the event's list, position p > 1 follows a
\* completed position p - 1, a completed invocation is followed by the next
\* position if there is one; an invocation that throws is the last one, and
\* the operation fails with that error; an event without callbacks adds no
\* invocation (a create that returns has invoked exactly the registered
\* before- and after-create callbacks).
C16_HooksInRegistrationOrder ==
    /\ \A i \in 1..Len(hookLog) :
          LET h == hookLog[i]
          IN  /\ h.pos \in 1..Len(Registered(h.event))
              /\ h.fn = Registered(h.event)[h.pos]
              /\ h.pos > 1 =>
                    /\ i > 1
                    /\ hookLog[i - 1].event = h.event
                    /\ hookLog[i - 1].pos = h.pos - 1
                    /\ hookLog[i - 1].res = "ok"
              /\ (h.res = "ok" /\ h.pos < Len(Registered(h.event))) =>
                    /\ i < Len(hookLog)
                    /\ hookLog[i + 1].event = h.event
                    /\ hookLog[i + 1].pos = h.pos + 1
              /\ h.res = "throw" =>
                    /\ i = Len(hookLog)
                    /\ Failed("HookError")
    /\ (opName = "create" /\ Returned) =>
          Len(hookLog) = Len(Registered("beforeCreate"))
                            + Len(Registered("afterCreate"))

C16_Witness ==
    /\ opName = "update"
    /\ Registered("beforeUpdate") = <<"g", "f">>
    /\ Len(hookLog) = 2
    /\ hookLog[1].fn = "g"
    /\ hookLog[2].fn = "f"
    /\ hookLog[2].res = "throw"
    /\ Failed("HookError")

Rank(step) ==
    CASE step.kind = "parse" -> 1
      [] step.kind = "hook" /\ step.event = "beforeCreate" -> 2
      [] step.kind = "write" -> 3
      [] step.kind = "hook" /\ step.event = "afterCreate" -> 4

Wrote == \E i \in 1..Len(opLog) : opLog[i].kind = "write" /\ opLog[i].res = "ok"

SchemaRejects(data) == hasValidator /\ \E f \in DOMAIN data : data[f] = "bad"

\* C17: create(data) validates, then runs the before-create hooks, then
\* writes, then runs the after-create hooks: its steps come in that order;
\* data the schema rejects fails the call with no hook run; when validation
\* or a before-create hook fails the collection is as it was; when an
\* after-create hook fails the call fails and the new document is in the
\* collection, stamped deletedAt = null.
C17_CreateOrder ==
    (opName = "create" /\ opPc # "idle") =>
        /\ \A i, j \in 1..Len(opLog) :
              i < j => Rank(opLog[i]) < Rank(opLog[j])
                          \/ (Rank(opLog[i]) = Rank(opLog[j])
                                /\ opLog[i].kind = "hook")
        /\ opLog[1].kind = "parse"
        /\ SchemaRejects(opArgs.data) =>
              Failed("ValidationError") /\ Len(opLog) = 1
        /\ ~Wrote => store = storeAtCall
        /\ (opPc = "done" /\ ~Failed("StoreError")
               /\ \A i \in 1..Len(opLog) : opLog[i].res = "ok") => Wrote
        /\ Wrote =>
              /\ ~Exists(storeAtCall, opArgs.id)
              /\ store = (opArgs.id :> Spread(opArgs.data, [deletedAt |-> "null"]))
                            @@ storeAtCall
              /\ \A i \in 1..Len(opLog) :
                    Rank(opLog[i]) < 3 => opLog[i].res = "ok"
        /\ (opPc = "done" /\ HookThrew) => Failed("HookError")

C17_Witness ==
    /\ opName = "create"
    /\ Failed("HookError")
    /\ Wrote
    /\ opLog[Len(opLog)].event = "afterCreate"
    /\ Exists(store, opArgs.id)
    /\ Len(opLog) = 4

StoreCalls == SelectSeq(opLog, LAMBDA step : step.kind \in {"read", "write"})

BulkCreateFailed(e) == opName = "none" /\ bulkPc = "failed" /\ bulkErr = e

AnyRejected(list) ==
    \E i \in 1..Len(list) : SchemaRejects(list[i].data)

\* C18 (as claimed): when create, update, bulkCreate or bulkUpdate fails
\* with ValidationError, no store call (read or write) has been issued.
C18_ValidationBeforeStoreCall ==
    /\ (opName \in {"create", "update", "bulkUpdate"}
           /\ Failed("ValidationError")) => StoreCalls = <<>>
    /\ BulkCreateFailed("ValidationError") => commitCalls = 0

\* C18 (amended): a ValidationError is raised before any store write: the
\* collection is as it was and no write or commit has been issued. create
\* and bulkCreate raise it before any store call; update and bulkUpdate
\* raise it after they have read their targets (one read per target), and
\* with rejected data they never reach a write: create fails with
\* ValidationError, update does when the target exists, bulkUpdate commits
\* nothing.
C18_ValidationBeforeStoreWrite ==
    /\ (opName \in {"create", "update", "bulkUpdate"}
           /\ Failed("ValidationError")) =>
          /\ store = storeAtCall
          /\ commitCalls = 0
          /\ \A i \in 1..Len(StoreCalls) : StoreCalls[i].kind = "read"
          /\ opName = "create" => StoreCalls = <<>>
          /\ opName = "update" => Len(StoreCalls) = 1
          /\ opName = "bulkUpdate" => Len(StoreCalls) = Len(opArgs)
    /\ BulkCreateFailed("ValidationError") =>
          /\ commitCalls = 0
          /\ store \in BulkStores
    /\ (opName = "create" /\ SchemaRejects(opArgs.data)) =>
          Failed("ValidationError")
    /\ (opName = "update" /\ SchemaRejects(opArgs.data)
           /\ Exists(storeAtCall, opArgs.id)) => Failed("ValidationError")
    /\ (opName = "bulkUpdate" /\ AnyRejected(opArgs)) =>
          /\ opPc = "done"
          /\ opResult.kind = "error"
          /\ commitCalls = 0
          /\ store = storeAtCall

C18_Witness ==
    /\ opName = "bulkUpdate"
    /\ Failed("ValidationError")
    /\ Len(opArgs) = 2
    /\ Len(StoreCalls) = 2
    /\ ~SchemaRejects(opArgs[1].data)
    /\ SchemaRejects(opArgs[2].data)

Rejected(doc) == \E f \in DOMAIN doc \cap PayloadFields : doc[f] = "bad"

\* C19 (as claimed): on a repository configured with a schema, no document
\* of the collection holds data the schema rejects, whichever write path
\* wrote it.
C19_OnlyValidatedDataStored ==
    hasValidator => \A i \in DOMAIN store : ~Rejected(store[i])

OtherWrote(f) ==
    \E i \in 1..Len(opLog) : opLog[i].kind = "other" /\ opLog[i].res = f

\* C20 (as claimed): once update(id, partial) has written, every field of
\* the document that partial does not name holds what the store held for it
\* before the write: the value another writer gave it between update's read
\* and its write if there was one, the value it had at the call otherwise.
C20_UpdateKeepsOtherFields ==
    (opName = "update" /\ Wrote) =>
        \A f \in (PayloadFields \cup {"deletedAt"}) \ DOMAIN opArgs.data :
            store[opArgs.id][f] = IF OtherWrote(f) THEN "theirs"
                                  ELSE storeAtCall[opArgs.id][f]

----------------------------------------------------------------------------
\* Properties of the soft-delete field.

\* The ids of the documents that exist before runInTransaction is called.
SeededIds == UNION {DOMAIN s : s \in InitStores}

\* C21 (as claimed): every document that a transactional create or update
\* write brought into existence carries deletedAt = null.
C21_CreatedCarryNullDeletedAt ==
    \A id \in DOMAIN store \ SeededIds : store[id].deletedAt = "null"

\* The restore call in flight was made on a document that was active then.
ActiveAtCall ==
    /\ opName = "restore"
    /\ Exists(storeAtCall, opArgs.id)
    /\ "deletedAt" \in DOMAIN storeAtCall[opArgs.id]
    /\ storeAtCall[opArgs.id]["deletedAt"] = "null"

\* The positions in opLog where a restore of the document ended in a write.
RestoreWrites(id) ==
    {i \in 1..Len(opLog) : opLog[i].kind = "write" /\ opLog[i].id = id
                           /\ opLog[i].res = "ok"}

\* The call in flight follows a restore of the same document that wrote.
SecondInARow ==
    /\ opName = "restore"
    /\ RestoreCalls = 2
    /\ \E i \in RestoreWrites(opArgs.id) :
          \E j \in i + 1..Len(opLog) :
              opLog[j].kind = "read" /\ opLog[j].id = opArgs.id

\* C22: restore(id) on a document that is already active does not fail with
\* NotFoundError (it fails only with a hook's or the store's error) and
\* leaves the stored document unchanged, deletedAt still null; a restore
\* that follows a restore of the same document leaves the collection as the
\* first one left it.
C22_RestoreIdempotent ==
    /\ ActiveAtCall =>
          /\ store = storeAtCall
          /\ opPc = "done" => \/ opResult = Ok("void")
                              \/ opResult.value \in {"HookError", "StoreError"}
    /\ SecondInARow => store = storeAtCall

C22_Witness ==
    /\ SecondInARow
    /\ ActiveAtCall
    /\ opPc = "done"
    /\ opResult = Ok("void")
    /\ Cardinality(RestoreWrites(opArgs.id)) = 2
    /\ store # <<>>

----------------------------------------------------------------------------
\* Properties of the query builder's bulk operations.

QueryWrites == {"queryUpdate", "queryDelete", "querySoftDelete"}

\* The documents the built query matched when the operation was called: the
\* where() condition and the soft-delete filter of the builder's flags.
MatchedAtCall ==
    {i \in DOMAIN storeAtCall :
        /\ MatchesWhere(storeAtCall[i], opArgs.where)
        /\ MatchesFilter(storeAtCall[i], ApplySoftDeleteFilter(opArgs))}

\* What the operation makes of a matched document.
QueryWriteOf(doc) ==
    CASE opName = "queryUpdate" -> Spread(doc, opSnap.payload[1].data)
      [] opName = "querySoftDelete" ->
            Spread(doc, [deletedAt |-> store[opSnap.payload.ids[1]]["deletedAt"]])

\* The collection after the operation modified exactly the matched documents.
ExactlyMatchedModified ==
    IF opName = "queryDelete"
    THEN store = Without(storeAtCall, MatchedAtCall)
    ELSE /\ DOMAIN store = DOMAIN storeAtCall
         /\ \A i \in DOMAIN store :
               store[i] = IF i \in MatchedAtCall
                          THEN QueryWriteOf(storeAtCall[i])
                          ELSE storeAtCall[i]
         /\ opName = "querySoftDelete" =>
               \A i \in MatchedAtCall : IsSoftDeleted(store[i])

\* C23: query().update(data), query().delete() and query().softDelete()
\* that return have modified exactly the documents the query matched and
\* return their number; with no match they return 0 without error, fire no
\* hook and commit no batch.
C23_QueryWritesExactlyMatched ==
    (opName \in QueryWrites /\ opPc = "done") =>
        /\ Returned =>
              /\ opResult.value = Cardinality(MatchedAtCall)
              /\ MatchedAtCall # {} => ExactlyMatchedModified
        /\ MatchedAtCall = {} =>
              /\ opResult = Ok(0)
              /\ store = storeAtCall
              /\ hookLog = <<>>
              /\ commitCalls = 0
              /\ pending = <<>>

C23_Witness ==
    /\ opName = "querySoftDelete"
    /\ Returned
    /\ opResult.value = 1
    /\ Cardinality(DOMAIN store) = 2
    /\ opArgs.onlyDeletedFlag
    /\ hookLog # <<>>

----------------------------------------------------------------------------
\* Properties of updates by dot path.

\* update(id, data) returned, and every key of data is a well-formed path.
UpdatedByPaths ==
    /\ opName = "update"
    /\ Returned
    /\ \A k \in DOMAIN opArgs.data : ~PathThrows(k)

\* C24 (as claimed): an update whose key is a dot path sets the addressed
\* nested field, keeps the siblings of the nested object and the document's
\* other fields, and creates the nested object when it is missing; an update
\* whose key is a plain name replaces the field's nested object wholesale.
C24_DotPathUpdatesNestedField ==
    UpdatedByPaths =>
        LET data   == opArgs.data
            before == storeAtCall[opArgs.id]
            after  == store[opArgs.id]
        IN  \A k \in DOMAIN data :
              IF IsDotNotation(k)
              THEN LET root == Split(k)[1]
                       leaf == Split(k)[2]
                   IN  /\ root \in DOMAIN after
                       /\ leaf \in DOMAIN after[root]
                       /\ after[root][leaf] = data[k]
                       /\ root \in DOMAIN before =>
                             \A s \in DOMAIN before[root] \ {leaf} :
                                 /\ s \in DOMAIN after[root]
                                 /\ after[root][s] = before[root][s]
                       /\ \A f \in DOMAIN before \ {root} :
                             f \in DOMAIN after /\ after[f] = before[f]
              ELSE after[k] = data[k]

\* The call in flight was given a malformed dot path, and every document it
\* names existed when it was called.
MalformedPathGiven ==
    \/ /\ opName = "update"
       /\ Exists(storeAtCall, opArgs.id)
       /\ \E k \in DOMAIN opArgs.data : PathThrows(k)
    \/ /\ opName = "bulkUpdate"
       /\ \A i \in 1..Len(opArgs) : Exists(storeAtCall, opArgs[i].id)
       /\ \E i \in 1..Len(opArgs) :
             \E k \in DOMAIN opArgs[i].data : PathThrows(k)

\* C25 (as claimed): update and bulkUpdate reject a malformed dot path (a
\* leading or trailing dot, an empty segment) with a validation failure and
\* write nothing; in bulkUpdate one malformed path in any item rejects the
\* whole call.
C25_MalformedPathRejected ==
    (MalformedPathGiven /\ ~HookThrew) =>
        /\ store = storeAtCall
        /\ commits = <<>>
        /\ opPc = "done" => Failed("ValidationError")

----------------------------------------------------------------------------
\* Properties of the write queue.

\* C26 (as claimed): when the callback has returned normally, every
\* QueuedWrite of the context has been applied to the native handle exactly
\* once, in queue order, whatever context calls the callback made.
C26_EveryQueuedWriteApplied ==
    CallbackReturned =>
        /\ Len(txWrites) = Len(writeQueue)
        /\ \A i \in 1..Len(writeQueue) :
              i <= Len(txWrites) => txWrites[i] = Execute(writeQueue[i])

----------------------------------------------------------------------------
\* Properties of a retried transaction.

\* The writes queued in the attempt in flight, as the handle receives them.
FinalAttemptWrites == [i \in 1..Len(writeQueue) |-> Execute(writeQueue[i])]

\* Nothing of an earlier invocation of the update function is on the handle,
\* among the post-commit closures or, once committed, in the collection.
OnlyThisAttempt ==
    /\ \A i \in 1..Len(txWrites) : txWrites[i].ctx = attempt
    /\ \A i \in 1..Len(afterCommitHooks) : afterCommitHooks[i].ctx = attempt
    /\ \A id \in DOMAIN store \ SeededIds :
          /\ Committed
          /\ \E i \in 1..Len(writeQueue) : writeQueue[i].id = id
    /\ Committed =>
          /\ txWrites = FinalAttemptWrites
          /\ \A i \in 1..Len(writeQueue) : writeQueue[i].ctx = attempt
    /\ Len(SelectSeq(hookLog, IsFirstAfterFn)) <= Len(writeQueue)
    /\ txPc = "resolved" => ClosuresStarted = ClosuresQueued

\* The commit applies the writes of the attempt in flight to the collection.
CommitsFinalAttempt ==
    (txPc = "commit" /\ txPc' = "afterHooks") =>
        store' = ApplyWrites(store, FinalAttemptWrites)

\* C27: when the store invokes the callback again, the writes queued in an
\* abandoned attempt are never applied: the commit applies exactly the
\* writes queued in the final attempt, the post-commit hook of each of them
\* then runs once, and no post-commit hook of an abandoned attempt runs.
C27_RetryAppliesFinalAttemptOnly ==
    []OnlyThisAttempt /\ [][CommitsFinalAttempt]_vars

C27_Witness ==
    /\ attempt = 2
    /\ txPc = "resolved"
    /\ Len(writeQueue) = 1
    /\ writeQueue[1].type = "create"
    /\ writeQueue[1].id = AutoId(2)
    /\ AutoId(2) \in DOMAIN store
    /\ AutoId(1) \notin DOMAIN store
    /\ Len(AfterEntries) = 1

----------------------------------------------------------------------------
\* Properties of context calls that fail.

MutatingCalls == {"create", "update", "delete"}

\* The last context call was a create, update or delete that threw.
LastCallFailed == lastCall.op \in MutatingCalls /\ lastCall.res # "ok"

\* A failed create, update or delete leaves the queue, the handle and the
\* post-commit closures as they were.
FailedCallQueuesNothing ==
    (/\ nCalls' = nCalls + 1
     /\ lastCall'.op \in MutatingCalls
     /\ lastCall'.res # "ok")
        => /\ writeQueue' = writeQueue
           /\ txWrites' = txWrites
           /\ afterCommitHooks' = afterCommitHooks

\* When the callback returns after a failed call, the handle and the closure
\* list hold what was queued before that call, and nothing else.
FailedCallContributesNothing ==
    (LastCallFailed /\ CallbackReturned) =>
        /\ Len(writeQueue) = lastCall.queued
        /\ Len(txWrites) = lastCall.queued
        /\ Len(afterCommitHooks) = lastCall.queued
        /\ Len(SelectSeq(hookLog, IsFirstAfterFn)) <= lastCall.queued

\* C28: a ctx.create, ctx.update or ctx.delete that fails at call time
\* (schema validation, a throwing before-hook, delete of a missing document)
\* leaves the write queue unchanged; when the callback goes on to return
\* normally, the failed call contributes no write and no post-commit hook.
C28_FailedCallLeavesQueue ==
    []FailedCallContributesNothing /\ [][FailedCallQueuesNothing]_vars

C28_Witness ==
    /\ lastCall.op = "update"
    /\ lastCall.res = "HookError"
    /\ lastCall.queued = 1
    /\ txPc = "resolved"
    /\ Len(txWrites) = 1
    /\ txWrites[1].type = "create"

----------------------------------------------------------------------------
\* Properties of bulkUpdate's hooks.

\* The positions in opLog where the first callback of the event was invoked.
Fired(event) ==
    {i \in 1..Len(opLog) : /\ opLog[i].kind = "hook"
                           /\ opLog[i].event = event
                           /\ opLog[i].pos = 1}

\* C29 (as claimed): bulkUpdate fires before-bulk-update once, after all
\* targets were fetched, found and validated and before the first commit,
\* and after-bulk-update once, after the last commit; a call that fails with
\* NotFoundError or ValidationError fires no hook.
C29_BulkUpdateHooksAroundCommit ==
    opName = "bulkUpdate" =>
        /\ Cardinality(Fired("beforeBulkUpdate")) <= 1
        /\ Cardinality(Fired("afterBulkUpdate")) <= 1
        /\ \A i \in Fired("beforeBulkUpdate") :
              \A j \in 1..Len(opLog) :
                  opLog[j].kind \in {"read", "parse"} => j < i
        /\ Fired("afterBulkUpdate") # {} => commits # <<>>
        /\ (Failed("NotFoundError") \/ Failed("ValidationError")) =>
              hookLog = <<>>
        /\ Returned =>
              /\ hooks["beforeBulkUpdate"] # <<>> =>
                    Fired("beforeBulkUpdate") # {}
              /\ hooks["afterBulkUpdate"] # <<>> =>
                    Fired("afterBulkUpdate") # {}

----------------------------------------------------------------------------
\* Properties of the builder's soft-delete flags.

\* A terminal operation of a builder that had includeDeleted() or
\* onlyDeleted() called on it has run.
TerminalAfterFlagCalls ==
    /\ opName \in {"query"} \cup QueryWrites
    /\ opPc \notin {"idle", "building"}
    /\ opArgs.calls # <<>>

LastFlagCall == opArgs.calls[Len(opArgs.calls)]

\* C30 (as claimed): for any sequence of includeDeleted() and onlyDeleted()
\* calls on one builder, the terminal operation uses the soft-delete filter
\* of the last call: none after includeDeleted(), deletedAt != null after
\* onlyDeleted().
C30_LastFlagCallWins ==
    TerminalAfterFlagCalls =>
        /\ ApplySoftDeleteFilter(opArgs) =
              (IF LastFlagCall = "includeDeleted" THEN "none"
               ELSE "deletedAt != null")
        /\ (opName = "query" /\ opPc = "done"
              /\ LastFlagCall = "includeDeleted") => GotIds = UserMatches

====
